---- MODULE Spec2Model ----
(***************************************************************************)
(* A model of map-transition-helper: the transition-function algebra       *)
(* (joinTransitions, createPanning, the predefined recipes), the tile      *)
(* cache with preloadTransition, and the Transition playback state         *)
(* machine.                                                                *)
(*                                                                         *)
(* Numbers.  JavaScript numbers are modelled as exact rationals on small   *)
(* grids: a time t is the integer tn with t = tn / TDen, a longitude is an *)
(* integer number of degrees, and a quotient is kept as the pair           *)
(* [num, den]; den = 0 stands for the IEEE results NaN / Infinity of a     *)
(* division by zero (JavaScript arithmetic never throws).                  *)
(***************************************************************************)
EXTENDS Integers, Sequences, FiniteSets, TLC

VARIABLES
    \* ---- joinTransitions (transition-function.ts) ----
    jpc,        \* "none" | "joined" | "threw" | "evaluated" | "evalThrew"
    jn,         \* transs.length
    jgiven,     \* TRUE iff a weights array was passed
    jweights,   \* functionWeights (the weights passed, or the default)
    jt,         \* numerator of the global t of the last evaluation (t = jt / TDen)
    jcall,      \* the call transs[idx](innerT) made: [idx, num, den], 0-based idx
    zpc,        \* calcZoomFitPoints: "none", "threw" or "returned"
    zn,         \* coordinates.length of the calcZoomFitPoints call
    \* ---- createPanning and the two-point recipes (predefined-transitions.ts) ----
    tpc,        \* "none" | "created" | "evaluated"
    tkind,      \* "linearPan" | "linearZoomAndPan" | "perceivedLinear" | "box" | "triangular"
    tp0,        \* start ViewPoint [lat, lng, zoom] (degrees, zoom level)
    tp1,        \* end ViewPoint
    tpan,       \* the closure of createPanning: [dx1, x0, x1, y0, y1]
    tt,         \* numerator of the time of the last evaluation (t = tt / TDen)
    tres,       \* the ViewPoint returned: [lat, lng, zoom], each a quotient [num, den]
    tmin,       \* createBoxTransition / createTriangularTransition: the zoom level z1
    tgiven,     \* TRUE iff minZoom was passed
    targ,       \* minZoom, or the fit zoom when minZoom was not passed
    wres,       \* createVanWijkAndNuijTransition: "none" | "threw" | "created" |
                \* "viewpoint" (numbers returned) | "nan" (NaN components returned)
    \* ---- TileMap (tile-map.ts), one shared instance ----
    tileMap,          \* keys of this.tileMap (canonical tile column at the modelled y/zoom)
    currentlyAdding,  \* this.currentlyAdding
    failedTiles,      \* this.failedTiles: key -> number of Tile objects with that key
    checkInitiated,   \* this._checkInitiated
    fetchState,       \* per key: "idle" | "fetching" | "gotBitmap" | "gotNull"
    owner,            \* per key: the preloadTransition call awaiting its addToTileMap promise
    nLoaded,          \* number of `loaded` events dispatched
    micro,            \* the microtask queue (FIFO)
    inTask,           \* TRUE while the task that called preloadTransition still runs
    \* ---- preloadTransition (preload.ts), one call per process ----
    ppc,        \* per call: "idle" | "awaiting" | "resolved" | "rejected"
    pn,         \* per call: numberOfFrames
    pframes,    \* per call: frameArray, each frame [t, tiles]
    pawait,     \* per call: keys whose addToTileMap promise is still pending
    pinflight,  \* per call: the required keys still being fetched when it resolved
    \* ---- Transition (frame.ts), one instance ----
    length,     \* this._frameArray.length
    tstate,     \* this._transitionState
    currentFrameIndex,  \* this._currentFrameIndex
    rev,        \* this._reverseDirection (undefined counts as FALSE)
    ctx,        \* TRUE iff this.context is set
    rafq,       \* callbacks requested for the next browser animation frame, in order
    rafId,      \* position in rafq of the callback this.rafId names, 0 if it is not pending
    rendered,   \* index of the frame last drawn to the canvas, -1 if none
    events,     \* the events dispatched by the last step, in order
    threw,      \* TRUE iff the last step threw an error
    lastStep,   \* name of the last step
    nPlay,      \* number of play() calls so far
    nFinish,    \* number of `finish` events so far
    calls,      \* number of API calls so far
    quiet,      \* TRUE iff pause() was called and no play(), cancel(), initialize()
                \* or assignment to currentFrameIndex since
    \* ---- Frame (frame.ts), one frame and the last call on it ----
    frame,      \* the Frame made by calculateFrame
    fop,        \* the last operation
    fpoint,     \* the canvas point last given to unproject
    fcoord,     \* the coordinate last returned by unproject or given to a method
    finset,     \* the `offset` argument of the last call that takes one
    fresult,    \* what the last method returned
    \* ---- calcZoomFitPoints and calcMinZoomCenteredOn (utils.ts) ----
    fitCall,    \* the last call: [op, a, b, canvasSize, margin, zoom]
    fitPrev     \* the call before it

joinVars == <<jpc, jn, jgiven, jweights, jt, jcall, zpc, zn>>

transVars == <<tpc, tkind, tp0, tp1, tpan, tt, tres, tmin, tgiven, targ, wres>>

tileVars == <<tileMap, currentlyAdding, failedTiles, checkInitiated, fetchState, owner,
              nLoaded, micro, inTask>>

preloadVars == <<ppc, pn, pframes, pawait, pinflight>>

playVars == <<length, tstate, currentFrameIndex, rev, ctx, rafq, rafId, rendered, events, threw, lastStep,
              nPlay, nFinish, calls, quiet>>

frameVars == <<frame, fop, fpoint, fcoord, finset, fresult>>

fitVars == <<fitCall, fitPrev>>

vars == <<joinVars, transVars, tileVars, preloadVars, playVars, frameVars, fitVars>>

\* what the operations of one component leave alone: the other components
JoinOnly == UNCHANGED <<transVars, tileVars, preloadVars, playVars, frameVars, fitVars>>
TransOnly == UNCHANGED <<joinVars, tileVars, preloadVars, playVars, frameVars, fitVars>>
TilesOnly == UNCHANGED <<joinVars, transVars, playVars, frameVars, fitVars>>
PlayOnly == UNCHANGED <<joinVars, transVars, tileVars, preloadVars, frameVars, fitVars>>
FrameOnly == UNCHANGED <<joinVars, transVars, tileVars, preloadVars, playVars, fitVars>>
FitOnly == UNCHANGED <<joinVars, transVars, tileVars, preloadVars, playVars, frameVars>>

-----------------------------------------------------------------------------
(* Bounds *)

MaxFns == 3        \* most transition functions joined
MaxWeight == 3     \* weights are drawn from 0..MaxWeight
TDen == 12         \* times are the grid points 0/TDen .. TDen/TDen

-----------------------------------------------------------------------------
(* joinTransitions *)

NoCall == [idx |-> -1, num |-> 0, den |-> 1]

RECURSIVE cumsum(_)
\* d3-array cumsum: running sums, same length as the input
cumsum(w) ==
    IF Len(w) = 0 THEN <<>>
    ELSE LET init == cumsum(SubSeq(w, 1, Len(w) - 1))
         IN  Append(init, (IF Len(init) = 0 THEN 0 ELSE init[Len(init)]) + w[Len(w)])

RECURSIVE bisectRightFrom(_, _, _, _)
\* the right-bisection variant: a[mid] <= x moves lo (a boundary starts the NEXT segment)
bisectRightFrom(a, x, lo, hi) ==
    IF lo < hi
    THEN LET mid == (lo + hi) \div 2
         IN  IF a[mid + 1] <= x THEN bisectRightFrom(a, x, mid + 1, hi)
                                ELSE bisectRightFrom(a, x, lo, mid)
    ELSE lo

bisectRight(a, x) == bisectRightFrom(a, x, 0, Len(a))

RECURSIVE bisectLeftFrom(_, _, _, _)
\* d3-array bisector.left: while (lo < hi) { mid = (lo + hi) >>> 1;
\*   if (compare(a[mid], x) < 0) lo = mid + 1; else hi = mid; } return lo;
\* indices are 0-based as in the code, a[mid + 1] is the TLA+ element
bisectLeftFrom(a, x, lo, hi) ==
    IF lo < hi
    THEN LET mid == (lo + hi) \div 2
         IN  IF a[mid + 1] < x THEN bisectLeftFrom(a, x, mid + 1, hi)
                               ELSE bisectLeftFrom(a, x, lo, mid)
    ELSE lo

bisectLeft(a, x) == bisectLeftFrom(a, x, 0, Len(a))

\* innerT without subtracting the segment start from the numerator
innerTNoStart(extendedT, t0, t1) == [num |-> extendedT, den |-> t1 - t0]

\* const innerT = (extendedT - t0) / (t1 - t0), all three scaled by TDen
innerT(extendedT, t0, t1) == [num |-> extendedT - t0, den |-> t1 - t0]

\* the function returned by joinTransitions, applied to t = tn / TDen:
\* the call it makes, or idx = -2 when transs[idx] is undefined (a TypeError)
joined(n, w, tn) ==
    LET cumulativeWeights == cumsum(w)
        totalWeight == cumulativeWeights[Len(cumulativeWeights)]
        extendedT == tn * totalWeight                    \* scaled by TDen
        scaled == [i \in 1..Len(cumulativeWeights) |-> cumulativeWeights[i] * TDen]
        idx == bisectLeft(scaled, extendedT)
        t0 == IF idx = 0 THEN 0 ELSE scaled[idx]
    IN  IF idx >= n
        THEN [idx |-> -2, num |-> 0, den |-> 0]
        ELSE LET q == innerT(extendedT, t0, scaled[idx + 1])
             IN  [idx |-> idx, num |-> q.num, den |-> q.den]

WeightSeqs(len) == [1..len -> 0..MaxWeight]

\* joinTransitions checking only that there is a function
joinThrowsIfEmpty(n, functionWeights) == n = 0

\* joinTransitions throws: transs.length === 0 or
\* transs.length !== functionWeights.length
joinThrows(n, functionWeights) == n = 0 \/ n # Len(functionWeights)

\* joinTransitions(transs, weights?) at composition time
JoinCompose(n, given, w) ==
    /\ jpc = "none"
    /\ LET functionWeights == IF given THEN w ELSE [i \in 1..n |-> 1]
       IN  /\ jn' = n
           /\ jgiven' = given
           /\ jweights' = functionWeights
           /\ jpc' = IF joinThrows(n, functionWeights) THEN "threw" ELSE "joined"
    /\ UNCHANGED <<jt, jcall, zpc, zn>>
    /\ JoinOnly

MaxPoints == 3     \* calcZoomFitPoints is given 0..MaxPoints coordinates

\* calcZoomFitPoints(coordinates, canvasSize, margin?): the length check
\* before the projection is fitted
CalcZoomFitPoints(n) ==
    /\ zpc = "none"
    /\ zn' = n
    /\ zpc' = IF n < 2 THEN "threw" ELSE "returned"
    /\ UNCHANGED <<jpc, jn, jgiven, jweights, jt, jcall>>
    /\ JoinOnly

\* one evaluation of the joined function at t = tn / TDen
JoinEval(tn) ==
    /\ jpc \in {"joined", "evaluated", "evalThrew"}
    /\ LET c == joined(jn, jweights, tn)
       IN  /\ jcall' = c
           /\ jpc' = IF c.idx = -2 THEN "evalThrew" ELSE "evaluated"
    /\ jt' = tn
    /\ UNCHANGED <<jn, jgiven, jweights, zpc, zn>>
    /\ JoinOnly

JoinInit ==
    /\ jpc = "none"
    /\ jn = 0
    /\ jgiven = FALSE
    /\ jweights = <<>>
    /\ jt = 0
    /\ jcall = NoCall
    /\ zpc = "none"
    /\ zn = 0

JoinNext ==
    \/ \E n \in 0..MaxFns : JoinCompose(n, FALSE, <<>>)
    \/ \E n \in 0..MaxFns, len \in 0..MaxFns : \E w \in WeightSeqs(len) : JoinCompose(n, TRUE, w)
    \/ \E tn \in 0..TDen : JoinEval(tn)
    \/ \E n \in 0..MaxPoints : CalcZoomFitPoints(n)

-----------------------------------------------------------------------------
(* Claims about joinTransitions *)

AllPositive == \A i \in 1..Len(jweights) : jweights[i] > 0

jcum == cumsum(jweights)

jtotal == jcum[Len(jcum)]

\* the scaled global time of the last evaluation lies exactly on the end of
\* the (1-based) segment i, which is not the last one
OnInteriorBoundary(i) == i \in 1..(jn - 1) /\ jt * jtotal = jcum[i] * TDen

\* C1 as stated: a global t on an interior cumulative-weight boundary is
\* owned by the NEXT segment, evaluated at local parameter 0
C1_BoundaryStartsNext ==
    (jpc = "evaluated" /\ AllPositive) =>
        \A i \in 1..(jn - 1) : OnInteriorBoundary(i) => (jcall.idx = i /\ jcall.num = 0)

\* C1 amended: a global t on an interior cumulative-weight boundary is owned
\* by the segment that ENDS there (the one whose cumulative weight it
\* equals), evaluated at local parameter 1; joinTransitions([f,g],[1,3])
\* evaluates f for t in [0,0.25] and g for t in (0.25,1], g at local 1 for t=1
C1_BoundaryEndsPrevious ==
    (jpc = "evaluated" /\ AllPositive) =>
        /\ \A i \in 1..(jn - 1) : OnInteriorBoundary(i) =>
               (jcall.idx = i - 1 /\ jcall.den > 0 /\ jcall.num = jcall.den)
        /\ (jweights = <<1, 3>>) =>
               /\ (jcall.idx = 0) <=> (4 * jt <= TDen)
               /\ (jcall.idx = 1) <=> (4 * jt > TDen)
               /\ (jt = TDen) => (jcall.num = jcall.den)

\* C1 witness: [f,g] with weights [1,3] evaluated at t = 0.25 called f at local 1
C1_Witness ==
    /\ jpc = "evaluated"
    /\ jweights = <<1, 3>>
    /\ 4 * jt = TDen
    /\ jcall.idx = 0
    /\ jcall.num = jcall.den

\* C2: with positive weights and t in [0,1] exactly one function fns[idx],
\* 0 <= idx < N, is called, at the local parameter (tW - c[idx-1]) /
\* (c[idx] - c[idx-1]) in [0,1], so that segment idx owns the times
\* (c[idx-1]/W, c[idx]/W] (and t = 0); omitted weights are all 1; t = 0 calls
\* fns[0] at local 0 and t = 1 calls fns[N-1] at local 1
C2_JoinPartition ==
    /\ (jpc \in {"joined", "evaluated", "evalThrew"} /\ ~jgiven) =>
           jweights = [i \in 1..jn |-> 1]
    /\ (jpc = "evalThrew") => ~AllPositive
    /\ (jpc = "evaluated" /\ AllPositive) =>
           LET i == jcall.idx
               lo == IF i = 0 THEN 0 ELSE jcum[i]
               hi == jcum[i + 1]
           IN  /\ i \in 0..(jn - 1)
               /\ jcall.den = (hi - lo) * TDen
               /\ jcall.num = jt * jtotal - lo * TDen
               /\ jcall.den > 0
               /\ 0 <= jcall.num /\ jcall.num <= jcall.den
               /\ \/ lo * TDen < jt * jtotal /\ jt * jtotal <= hi * TDen
                  \/ jt = 0 /\ i = 0
               /\ hi - lo = jweights[i + 1]
               /\ (jt = 0) => (i = 0 /\ jcall.num = 0)
               /\ (jt = TDen) => (i = jn - 1 /\ jcall.num = jcall.den)

\* C2 witness: three positively weighted functions, the middle one called
\* strictly inside its segment
C2_Witness ==
    /\ jpc = "evaluated"
    /\ AllPositive
    /\ jn = 3
    /\ jcall.idx = 1
    /\ 0 < jcall.num /\ jcall.num < jcall.den

-----------------------------------------------------------------------------
(* createPanning, createZoom and the two-point recipes                      *)
(*                                                                          *)
(* Image space is that of d3's default geoMercator(): scale 961 / 2pi,      *)
(* translate [480, 250].  x is kept in units of 1/360 pixel, so that        *)
(* x = 480 + 961 * lng / 360 is the integer 480 * 360 + 961 * lng.  The     *)
(* Mercator ordinate ln(tan(pi/4 + lat/2)) is kept in thousandths, exact    *)
(* on the latitudes of MercKnots and linear between them; y = 250 - k * m   *)
(* is represented by m itself.                                              *)

MercWidth == 961          \* pixels of the whole world at the default scale
MercTranslateX == 480     \* default translate of geoMercator()

Abs(a) == IF a < 0 THEN -a ELSE a

\* Math.round(a / b) for b > 0: the nearest integer, halves towards +infinity
RoundDiv(a, b) == (2 * a + b) \div (2 * b)

Q(n, d) == [num |-> n, den |-> d]

NaN == Q(0, 0)

IsNaN(q) == q.den = 0

\* equality of a quotient with an integer
QEq(q, i) == q.den > 0 /\ q.num = i * q.den

\* d3 rotationIdentity, used by projection() and projection.invert():
\* if (abs(lambda) > pi) lambda -= Math.round(lambda / tau) * tau
\* on the longitude num / den degrees (den > 0)
rotationIdentity(num, den) ==
    IF Abs(num) > 180 * den THEN num - RoundDiv(num, 360 * den) * 360 * den ELSE num

\* proj([lng, lat])[0], in 1/360 pixel
projX(lng) == MercTranslateX * 360 + MercWidth * rotationIdentity(lng, 1)

MercKnots == << [lat |-> -60, m |-> -1317], [lat |-> -30, m |-> -549],
                [lat |-> 0, m |-> 0],
                [lat |-> 30, m |-> 549], [lat |-> 60, m |-> 1317] >>

\* proj([lng, lat])[1]: the Mercator ordinate of a knot latitude
projY(lat) == LET i == CHOOSE j \in 1..Len(MercKnots) : MercKnots[j].lat = lat
              IN  MercKnots[i].m

\* proj.invert([x, y])[0] for x = xNum / den (1/360 pixel): degrees as a quotient
invertX(xNum, den) ==
    LET lngNum == xNum - MercTranslateX * 360 * den      \* 961 * lng * den
    IN  Q(rotationIdentity(lngNum, MercWidth * den), MercWidth * den)

\* proj.invert([x, y])[1] for the ordinate yNum / den: degrees as a quotient
invertY(yNum, den) ==
    LET i == CHOOSE j \in 1..(Len(MercKnots) - 1) :
                 /\ MercKnots[j].m * den <= yNum
                 /\ yNum <= MercKnots[j + 1].m * den
        a == MercKnots[i]
        b == MercKnots[i + 1]
    IN  Q(a.lat * (b.m - a.m) * den + (b.lat - a.lat) * (yNum - a.m * den),
          (b.m - a.m) * den)

\* the antimeridian offset with the two directions exchanged
dx1Swapped(lng0, lng1) ==
    IF Abs(lng1 - lng0) <= 180 THEN 0 ELSE IF lng1 > lng0 THEN 1 ELSE -1

\* the antimeridian offset with a difference of exactly 180 treated as a crossing
dx1Strict(lng0, lng1) ==
    IF Abs(lng1 - lng0) < 180 THEN 0 ELSE IF lng1 > lng0 THEN -1 ELSE 1

\* const dl = Math.abs(lng1 - lng0);
\* const dx1 = dl <= 180 ? 0 : lng1 > lng0 ? -1 : 1;
dx1Of(lng0, lng1) ==
    IF Abs(lng1 - lng0) <= 180 THEN 0 ELSE IF lng1 > lng0 THEN -1 ELSE 1

\* createPanning(p0, p1): the values the returned closure captures;
\* xEast - xWest = proj([180, 0])[0] - proj([-180, 0])[0]
createPanning(p0, p1) ==
    LET d == dx1Of(p0.lng, p1.lng)
        dx == d * (projX(180) - projX(-180))
    IN  [dx1 |-> d,
         x0 |-> projX(p0.lng), x1 |-> projX(p1.lng) + dx,
         y0 |-> projY(p0.lat), y1 |-> projY(p1.lat)]

\* the panning function with the two interpolation weights exchanged
panSwapped(c, t) ==
    IF t.den = 0 THEN [lat |-> [num |-> 0, den |-> 0], lng |-> [num |-> 0, den |-> 0]]
    ELSE [lng |-> invertX(c.x0 * t.num + c.x1 * (t.den - t.num), t.den),
          lat |-> invertY(c.y0 * t.num + c.y1 * (t.den - t.num), t.den)]

\* the panning function at local parameter t (a quotient): interpolateNumber
\* a * (1 - t) + b * t on both axes, then proj.invert; NaN in, NaN out
pan(c, t) ==
    IF IsNaN(t) THEN [lat |-> NaN, lng |-> NaN]
    ELSE [lng |-> invertX(c.x0 * (t.den - t.num) + c.x1 * t.num, t.den),
          lat |-> invertY(c.y0 * (t.den - t.num) + c.y1 * t.num, t.den)]

\* createZoom(z0, z1)(tn / TDen) = interpolateNumber(z0, z1)(t)
zoomAt(z0, z1, tn) == Q(z0 * (TDen - tn) + z1 * tn, TDen)

MaxZoom == 4     \* zoom levels of the inputs are drawn from ZoomGrid, all <= MaxZoom

\* Math.pow(2, -z) * 2^(MaxZoom+1) * 2 * den for z = zNum / den in [0, MaxZoom]:
\* exact on integer z, linear between neighbouring integers
pow2neg(zNum, den) ==
    LET n == zNum \div den
        r == zNum % den
    IN  (2 ^ (MaxZoom + 1 - n)) * (2 * den - r)

\* createPerceivedLinearZoomAndPanTransition: const tx = (z_ - z0) / (z1 - z0)
\* with z_ = 2^-zoom(t), z0 = 2^-p0.zoom, z1 = 2^-p1.zoom; 0/0 is NaN
perceivedTx(z0, z1, tn) ==
    LET z == zoomAt(z0, z1, tn)
        num == pow2neg(z.num, z.den) - pow2neg(z0 * TDen, TDen)
        den == pow2neg(z1 * TDen, TDen) - pow2neg(z0 * TDen, TDen)
    IN  IF den = 0 THEN NaN
        ELSE IF den < 0 THEN Q(-num, -den) ELSE Q(num, den)

\* the ViewPoint the transition function of the given kind returns at tn / TDen
transitionAt(kind, p0, p1, c, tn) ==
    LET linear == pan(c, Q(tn, TDen))
    IN  CASE kind = "linearPan" ->
               \* createTransitionFunction(createPanning(p0, p1), (_) => p0.zoom)
               [lat |-> linear.lat, lng |-> linear.lng, zoom |-> Q(p0.zoom, 1)]
          [] kind = "linearZoomAndPan" ->
               [lat |-> linear.lat, lng |-> linear.lng,
                zoom |-> zoomAt(p0.zoom, p1.zoom, tn)]
          [] kind = "perceivedLinear" ->
               LET pl == pan(c, perceivedTx(p0.zoom, p1.zoom, tn))
               IN  [lat |-> pl.lat, lng |-> pl.lng,
                    zoom |-> zoomAt(p0.zoom, p1.zoom, tn)]

\* createBoxTransition with a middle phase that keeps the zoom levels of
\* p0 and p1
boxAtKeepZoom(p0, p1, z1, tn) ==
    LET call == joined(3, <<1, 1, 1>>, tn)
        local == (call.num * TDen) \div call.den
        a == [p0 EXCEPT !.zoom = z1]
        b == [p1 EXCEPT !.zoom = z1]
    IN  CASE call.idx = 0 ->
               transitionAt("linearZoomAndPan", p0, a, createPanning(p0, a), local)
          [] call.idx = 1 ->
               transitionAt("linearZoomAndPan", p0, p1, createPanning(p0, p1), local)
          [] call.idx = 2 ->
               transitionAt("linearZoomAndPan", b, p1, createPanning(b, p1), local)

\* the function createBoxTransition returns, at tn / TDen, for the zoom
\* level z1 of the panning phase: joinTransitions of
\*   createLinearZoomAndPanTransition(p0, {...p0, zoom: z1}),
\*   createLinearPanTransition({...p0, zoom: z1}, {...p1, zoom: z1}),
\*   createLinearZoomAndPanTransition({...p1, zoom: z1}, p1)
\* without weights
boxAt(p0, p1, z1, tn) ==
    LET call == joined(3, <<1, 1, 1>>, tn)
        local == (call.num * TDen) \div call.den
        a == [p0 EXCEPT !.zoom = z1]
        b == [p1 EXCEPT !.zoom = z1]
    IN  CASE call.idx = 0 ->
               transitionAt("linearZoomAndPan", p0, a, createPanning(p0, a), local)
          [] call.idx = 1 ->
               transitionAt("linearPan", a, b, createPanning(a, b), local)
          [] call.idx = 2 ->
               transitionAt("linearZoomAndPan", b, p1, createPanning(b, p1), local)

RECURSIVE gcd(_, _)
\* the greatest common divisor of two naturals
gcd(a, b) == IF b = 0 THEN a ELSE gcd(b, a % b)

\* the same number in lowest terms (NaN stays NaN)
lowest(q) ==
    IF q.den = 0 THEN q
    ELSE LET g == gcd(Abs(q.num), q.den) IN Q(q.num \div g, q.den \div g)

\* const mid = createPanning(p0, p1)(0.5), as its projection in HALF units
\* of the image space: proj.invert wraps the longitude into [-180,180] and
\* proj of that longitude is taken again by the createPanning calls below
triMid(p0, p1) ==
    LET c == createPanning(p0, p1)
        lng2 == rotationIdentity(c.x0 + c.x1 - 2 * MercTranslateX * 360, 2 * MercWidth)
    IN  [lng2 |-> lng2,                               \* 2 * MercWidth * mid.lng
         x |-> 2 * MercTranslateX * 360 + lng2,
         y |-> c.y0 + c.y1]

\* createPanning(p0, midViewpoint) and createPanning(midViewpoint, p1), in
\* half units; first = TRUE for the former
triPanning(p0, p1, first) ==
    LET m == triMid(p0, p1)
        p == IF first THEN p0 ELSE p1
        pl2 == 2 * MercWidth * p.lng                  \* p.lng on the scale of lng2
        far == Abs(m.lng2 - pl2) > 180 * 2 * MercWidth
        lng0 == IF first THEN pl2 ELSE m.lng2
        lng1 == IF first THEN m.lng2 ELSE pl2
        d == IF ~far THEN 0 ELSE IF lng1 > lng0 THEN -1 ELSE 1
        dx == d * 2 * (projX(180) - projX(-180))
    IN  IF first
        THEN [dx1 |-> d, x0 |-> 2 * projX(p0.lng), x1 |-> m.x + dx,
              y0 |-> 2 * projY(p0.lat), y1 |-> m.y]
        ELSE [dx1 |-> d, x0 |-> m.x, x1 |-> 2 * projX(p1.lng) + dx,
              y0 |-> m.y, y1 |-> 2 * projY(p1.lat)]

\* the panning function of a closure in half units
panHalf(c, t) ==
    IF IsNaN(t) THEN [lat |-> NaN, lng |-> NaN]
    ELSE [lng |-> invertX(c.x0 * (t.den - t.num) + c.x1 * t.num, 2 * t.den),
          lat |-> invertY(c.y0 * (t.den - t.num) + c.y1 * t.num, 2 * t.den)]

\* createPerceivedLinearZoomAndPanTransition between p0 or p1 and the mid
\* viewpoint, at local / TDen
triPhase(c, z0, z1, local) ==
    LET pl == panHalf(c, lowest(perceivedTx(z0, z1, local)))
    IN  [lat |-> pl.lat, lng |-> pl.lng, zoom |-> zoomAt(z0, z1, local)]

\* the function createTriangularTransition returns, at tn / TDen, for the
\* mid zoom z1: joinTransitions of the perceived-linear transitions
\* p0 -> midViewpoint and midViewpoint -> p1, without weights
triAt(p0, p1, z1, tn) ==
    LET call == joined(2, <<1, 1>>, tn)
        local == (call.num * TDen) \div call.den
    IN  IF call.idx = 0
        THEN triPhase(triPanning(p0, p1, TRUE), p0.zoom, z1, local)
        ELSE triPhase(triPanning(p0, p1, FALSE), z1, p1.zoom, local)

\* createBoxTransition taking the fit zoom as it is
boxZoomUncapped(p0, p1, given, minZoom, fit) == IF given THEN minZoom ELSE fit

\* const z1 = minZoom ?? Math.min(calcMinZoomCenteredOn(p0, p1, canvasSize),
\*                                p0.zoom, p1.zoom)
\* with `fit` the value of calcMinZoomCenteredOn
boxZoom(p0, p1, given, minZoom, fit) ==
    IF given THEN minZoom
    ELSE IF fit <= p0.zoom /\ fit <= p1.zoom THEN fit
    ELSE IF p0.zoom <= p1.zoom THEN p0.zoom ELSE p1.zoom

\* the zoom levels passed as minZoom or found by calcMinZoomCenteredOn
MinZoomGrid == {0, MaxZoom - 1}

LngGrid == {-180, -170, 0, 10, 170, 180, 190}
LatGrid == {0, 60}
ZoomGrid == {2, MaxZoom}
ViewPoints == [lat : LatGrid, lng : LngGrid, zoom : ZoomGrid]
Kinds == {"linearPan", "linearZoomAndPan", "perceivedLinear"}

NoPan == [dx1 |-> 0, x0 |-> 0, x1 |-> 0, y0 |-> 0, y1 |-> 0]
NoViewPoint == [lat |-> 0, lng |-> 0, zoom |-> 0]
NoResult == [lat |-> NaN, lng |-> NaN, zoom |-> NaN]

\* createLinearPanTransition / createLinearZoomAndPanTransition /
\* createPerceivedLinearZoomAndPanTransition (p0, p1)
CreateTransition(kind, p0, p1) ==
    /\ tpc = "none"
    /\ tkind' = kind
    /\ tp0' = p0
    /\ tp1' = p1
    /\ tpan' = createPanning(p0, p1)
    /\ tpc' = "created"
    /\ UNCHANGED <<tt, tres, tmin, tgiven, targ, wres>>
    /\ TransOnly

\* createBoxTransition(p0, p1, canvasSize, minZoom?); z is minZoom when it
\* is given and the value of calcMinZoomCenteredOn when it is not
CreateBoxTransition(p0, p1, given, z) ==
    /\ tpc = "none"
    /\ tkind' = "box"
    /\ tp0' = p0
    /\ tp1' = p1
    /\ tpan' = createPanning(p0, p1)
    /\ tmin' = boxZoom(p0, p1, given, z, z)
    /\ tgiven' = given
    /\ targ' = z
    /\ tpc' = "created"
    /\ UNCHANGED <<tt, tres, wres>>
    /\ TransOnly

\* createTriangularTransition(p0, p1, canvasSize, minZoom?); z is minZoom
\* when it is given and the value of calcZoomFitPoints([p0, p1], canvasSize)
\* when it is not; the mid zoom is chosen as in createBoxTransition
CreateTriangularTransition(p0, p1, given, z) ==
    /\ tpc = "none"
    /\ tkind' = "triangular"
    /\ tp0' = p0
    /\ tp1' = p1
    /\ tpan' = createPanning(p0, p1)
    /\ tmin' = boxZoom(p0, p1, given, z, z)
    /\ tgiven' = given
    /\ targ' = z
    /\ tpc' = "created"
    /\ UNCHANGED <<tt, tres, wres>>
    /\ TransOnly

\* one call of the transition function, at t = tn / TDen; no branch of it throws
EvalTransition(tn) ==
    /\ tpc \in {"created", "evaluated"}
    /\ tkind # "vanWijk"
    /\ tt' = tn
    /\ tres' = CASE tkind = "box" -> boxAt(tp0, tp1, tmin, tn)
                 [] tkind = "triangular" -> triAt(tp0, tp1, tmin, tn)
                 [] OTHER -> transitionAt(tkind, tp0, tp1, tpan, tn)
    /\ tpc' = "evaluated"
    /\ UNCHANGED <<tkind, tp0, tp1, tpan, tmin, tgiven, targ, wres>>
    /\ TransOnly

TransInit ==
    /\ tpc = "none"
    /\ tkind = "linearPan"
    /\ tp0 = NoViewPoint
    /\ tp1 = NoViewPoint
    /\ tpan = NoPan
    /\ tt = 0
    /\ tres = NoResult
    /\ tmin = 0
    /\ tgiven = FALSE
    /\ targ = 0
    /\ wres = "none"

TransNext ==
    \/ \E kind \in Kinds, p0 \in ViewPoints, p1 \in ViewPoints : CreateTransition(kind, p0, p1)
    \/ \E p0 \in ViewPoints, p1 \in ViewPoints, given \in BOOLEAN, z \in MinZoomGrid :
          CreateBoxTransition(p0, p1, given, z)
    \/ \E p0 \in ViewPoints, p1 \in ViewPoints, given \in BOOLEAN, z \in MinZoomGrid :
          CreateTriangularTransition(p0, p1, given, z)
    \/ \E tn \in 0..TDen : EvalTransition(tn)

-----------------------------------------------------------------------------
(* createVanWijkAndNuijTransition: which of its numbers are NaN.  A double   *)
(* is abstracted to its class: "zero", "num" (finite, not zero), "inf" or    *)
(* "nan"; signs do not matter to what is checked.                            *)

\* a * b on classes: NaN for 0 * Infinity
fmul(a, b) ==
    IF a = "nan" \/ b = "nan" THEN "nan"
    ELSE IF {a, b} = {"zero", "inf"} THEN "nan"
    ELSE IF "zero" \in {a, b} THEN "zero"
    ELSE IF "inf" \in {a, b} THEN "inf"
    ELSE "num"

\* a / b on classes: NaN for 0 / 0 and Infinity / Infinity; nothing throws
fdiv(a, b) ==
    IF a = "nan" \/ b = "nan" THEN "nan"
    ELSE IF a = b /\ a \in {"zero", "inf"} THEN "nan"
    ELSE IF b = "zero" \/ a = "inf" THEN "inf"
    ELSE IF a = "zero" \/ b = "inf" THEN "zero"
    ELSE "num"

\* a sum of terms of the given classes
fsum(terms) ==
    IF "nan" \in terms THEN "nan"
    ELSE IF "inf" \in terms THEN "inf"
    ELSE IF terms = {"zero"} THEN "zero"
    ELSE "num"

\* Math.log, Math.sqrt(x ** 2 + 1), cosh, tanh, ... of the closed forms:
\* NaN in, NaN out, a number otherwise
fnum(terms) == IF "nan" \in terms THEN "nan" ELSE "num"

\* mercator([lng, lat]) === null: d3's projection function returns a point
\* for every pair of numbers
projectsToNull(p) == FALSE

\* the closure of createVanWijkAndNuijTransition: the classes of the numbers
\* the returned function uses
vanWijk(p0, p1) ==
    LET \* fitExtent of the line p0 -- p1: an extent of size 0 gives k = Infinity
        baseScale == IF p0.lat = p1.lat /\ p0.lng = p1.lng THEN "inf" ELSE "num"
        zoomFactor0 == fdiv("num", baseScale)
        zoomFactor1 == fdiv("num", baseScale)
        \* u1 = Math.sqrt((x0 - x1) ** 2 + (y0 - y1) ** 2)
        u1 == IF projX(p0.lng) = projX(p1.lng) /\ projY(p0.lat) = projY(p1.lat)
              THEN "zero" ELSE "num"
        w0 == fmul(fdiv("num", zoomFactor0), u1)
        w1 == fmul(fdiv("num", zoomFactor1), u1)
        rho == "num"
        \* (w1 ** 2 - w0 ** 2 +- rho ** 4 * (u1 - u0) ** 2)
        numerator == fsum({fmul(w1, w1), fmul(w0, w0), fmul(rho, fmul(u1, u1))})
        b0 == fdiv(numerator, fmul(fmul(w0, rho), u1))
        b1 == fdiv(numerator, fmul(fmul(w1, rho), u1))
        r0 == fnum({b0})
        r1 == fnum({b1})
    IN  [w0 |-> w0, r0 |-> r0, S |-> fnum({r0, r1})]

\* createVanWijkAndNuijTransition(p0, p1, canvasSize, rho = 1.4)
CreateVanWijkAndNuijTransition(p0, p1) ==
    /\ tpc = "none"
    /\ tkind' = "vanWijk"
    /\ tp0' = p0
    /\ tp1' = p1
    /\ tpc' = "created"
    /\ wres' = IF projectsToNull(p0) \/ projectsToNull(p1) THEN "threw" ELSE "created"
    /\ UNCHANGED <<tpan, tt, tres, tmin, tgiven, targ>>
    /\ TransOnly

\* the returned function at tn / TDen: position(t) and zoom(t) from u(t * S)
\* and w(t * S); mercator.invert returns a point for every pair of numbers,
\* NaN for NaN, so `cannot invert coordinates` is not thrown
EvalVanWijk(tn) ==
    /\ tkind = "vanWijk" /\ tpc \in {"created", "evaluated"} /\ wres # "threw"
    /\ tt' = tn
    /\ LET c == vanWijk(tp0, tp1)
           s == fnum({c.S})
           u_ == fnum({c.w0, c.r0, s})
           w_ == fnum({c.w0, c.r0, s})
       IN  wres' = IF fnum({u_, w_}) = "nan" THEN "nan" ELSE "viewpoint"
    /\ tpc' = "evaluated"
    /\ UNCHANGED <<tkind, tp0, tp1, tpan, tres, tmin, tgiven, targ>>
    /\ TransOnly

WijkNext ==
    \/ \E p0 \in ViewPoints, p1 \in ViewPoints : CreateVanWijkAndNuijTransition(p0, p1)
    \/ \E tn \in 0..TDen : EvalVanWijk(tn)

-----------------------------------------------------------------------------
(* calcZoomFitPoints and calcMinZoomCenteredOn (utils.ts).  A point of the   *)
(* image space is [l, v]: its longitude and its Mercator ordinate, both in   *)
(* degrees of a world that is 360 wide (whole degrees).  A zoom level z is   *)
(* represented by the width of the world at that zoom in pixels,             *)
(* 256 * 2^z = 2 * PI * scale, an extended quotient: [num, den] with den > 0 *)
(* a number, [1, 0] = Infinity, [-1, 0] = -Infinity and [0, 0] = NaN, so     *)
(* that zooms compare as these widths do.                                    *)

TwoPiMilli == 6283     \* 2 * Math.PI in the unit of MercKnots

PosInf == Q(1, 0)

NegInf == Q(-1, 0)

\* Number.isNaN on extended quotients
isNaN(q) == q = NaN

\* the Mercator ordinate of a knot latitude in degrees of world width
mercDeg(lat) == (projY(lat) * 360) \div TwoPiMilli

\* proj([lng, lat]) of a coordinate, the longitude normalised by d3's rotation
imagePoint(c) == [l |-> rotationIdentity(c.lng, 1), v |-> mercDeg(c.lat)]

\* the JavaScript quotient a / (e / 360) for an integer a and an extent e >= 0
jsDiv(a, e) ==
    IF e = 0 THEN (IF a > 0 THEN PosInf ELSE IF a < 0 THEN NegInf ELSE NaN)
    ELSE Q(a * 360, e)

\* p <= q on extended quotients that are not NaN
leq(p, q) ==
    \/ p = NegInf
    \/ q = PosInf
    \/ p.den > 0 /\ q.den > 0 /\ p.num * q.den <= q.num * p.den

\* Math.min(p, q): NaN if either is NaN
mathMin(p, q) == IF isNaN(p) \/ isNaN(q) THEN NaN ELSE IF leq(p, q) THEN p ELSE q

\* the extent of a set of integers
spread(S) == (CHOOSE hi \in S : \A x \in S : x <= hi) - (CHOOSE lo \in S : \A x \in S : lo <= x)

\* the fitted box with the margin added to the canvas instead of taken off
fitBoxOutset(canvasSize, margin) ==
    [w |-> canvasSize.x + 2 * margin, h |-> canvasSize.y + 2 * margin]

\* proj.fitExtent([[margin, margin], [canvasSize.x - margin, canvasSize.y - margin]], ...):
\* width and height of the box
fitBox(canvasSize, margin) ==
    [w |-> canvasSize.x - 2 * margin, h |-> canvasSize.y - 2 * margin]

\* d3 fitExtent on the bounds of the projected points and
\* Math.log2((proj.scale() / 256) * 2 * Math.PI): k = Math.min(w / dx, h / dy);
\* the logarithm of a negative number is NaN
fitImage(points, canvasSize, margin) ==
    LET box == fitBox(canvasSize, margin)
        width == mathMin(jsDiv(box.w, spread({q.l : q \in points})),
                         jsDiv(box.h, spread({q.v : q \in points})))
    IN  IF isNaN(width) \/ width.num < 0 THEN NaN ELSE width

\* calcZoomFitPoints(coordinates, canvasSize, margin) for two or more coordinates
calcZoomFitPoints(coordinates, canvasSize, margin) ==
    fitImage({imagePoint(c) : c \in coordinates}, canvasSize, margin)

\* calcMinZoomCenteredOn fitting center and outer themselves
reflectNone(center, outer) == {imagePoint(center), imagePoint(outer)}

\* calcMinZoomCenteredOn: the two points passed to calcZoomFitPoints,
\* proj.invert of center + d and of center - d for d = proj(outer) - proj(center);
\* proj.invert normalises the longitude into [-180,180]
reflect(center, outer) ==
    LET c == imagePoint(center)
        o == imagePoint(outer)
    IN  {[l |-> rotationIdentity(o.l, 1), v |-> o.v],
         [l |-> rotationIdentity(2 * c.l - o.l, 1), v |-> 2 * c.v - o.v]}

\* calcMinZoomCenteredOn(center, outer, canvasSize, margin)
calcMinZoomCenteredOn(center, outer, canvasSize, margin) ==
    fitImage(reflect(center, outer), canvasSize, margin)

\* inputs
FitCoordinates == [lat : LatGrid, lng : LngGrid]

MarginStep == 20       \* fitMargin, the default margin

FitMargins == {0, MarginStep, 2 * MarginStep, 3 * MarginStep}

FitCanvasSizes == {[x |-> 100, y |-> 80], [x |-> 300, y |-> 200]}

NoFit == [op |-> "none", a |-> [lat |-> 0, lng |-> 0], b |-> [lat |-> 0, lng |-> 0],
          canvasSize |-> [x |-> 0, y |-> 0], margin |-> 0, zoom |-> NaN]

\* a behaviour makes at most two calls, the second with the points and the
\* canvas of the first
FitCallAllowed(a, b, canvasSize) ==
    /\ fitPrev.op = "none"
    /\ fitCall.op # "none" => (a = fitCall.a /\ b = fitCall.b /\ canvasSize = fitCall.canvasSize)

\* calcZoomFitPoints([a, b], canvasSize, margin)
FitPointsCall(a, b, canvasSize, margin) ==
    /\ FitCallAllowed(a, b, canvasSize)
    /\ fitPrev' = fitCall
    /\ fitCall' = [op |-> "calcZoomFitPoints", a |-> a, b |-> b, canvasSize |-> canvasSize,
               margin |-> margin, zoom |-> calcZoomFitPoints({a, b}, canvasSize, margin)]
    /\ FitOnly

\* calcMinZoomCenteredOn(center, outer, canvasSize, margin)
CenteredOnCall(center, outer, canvasSize, margin) ==
    /\ FitCallAllowed(center, outer, canvasSize)
    /\ fitPrev' = fitCall
    /\ fitCall' = [op |-> "calcMinZoomCenteredOn", a |-> center, b |-> outer,
               canvasSize |-> canvasSize, margin |-> margin,
               zoom |-> calcMinZoomCenteredOn(center, outer, canvasSize, margin)]
    /\ FitOnly

FitInit == fitCall = NoFit /\ fitPrev = NoFit

FitNext ==
    \/ \E a \in FitCoordinates, b \in FitCoordinates, c \in FitCanvasSizes, m \in FitMargins :
          FitPointsCall(a, b, c, m)
    \/ \E a \in FitCoordinates, b \in FitCoordinates, c \in FitCanvasSizes, m \in FitMargins :
          CenteredOnCall(a, b, c, m)

-----------------------------------------------------------------------------
(* Claims about createPanning and the two-point recipes *)

InRange(lng) == -180 <= lng /\ lng <= 180

BothInRange == InRange(tp0.lng) /\ InRange(tp1.lng)

RawDelta == Abs(tp1.lng - tp0.lng)

WorldWidth == projX(180) - projX(-180)

\* the quotient q is an angle equal to the integer i modulo 360 degrees
Mod360Eq(q, i) == q.den > 0 /\ (q.num - i * q.den) % (360 * q.den) = 0

\* C3: for longitudes in [-180,180] whose raw difference exceeds 180 degrees
\* the destination x is offset by exactly one world width, signed so that
\* the travelled span is at most 180 degrees, and the linear pan moves along
\* that short span; from lng 170 to lng -170 it travels 20 degrees eastward
\* and is at longitude 180 (mod 360) at t = 0.5
C3_ShortWayAcrossAntimeridian ==
    (tpc # "none" /\ BothInRange /\ RawDelta > 180) =>
        LET short == tp1.lng - tp0.lng + 360 * tpan.dx1
        IN  /\ tpan.dx1 \in {-1, 1}
            /\ tpan.x1 = projX(tp1.lng) + tpan.dx1 * WorldWidth
            /\ 2 * Abs(tpan.x1 - tpan.x0) <= WorldWidth
            /\ Abs(short) <= 180
            /\ (tpc = "evaluated" /\ tkind \in {"linearPan", "linearZoomAndPan"}) =>
                   /\ tres.lng.den > 0
                   /\ (tres.lng.num * TDen - (tp0.lng * TDen + short * tt) * tres.lng.den)
                          % (360 * TDen * tres.lng.den) = 0
            /\ (tp0.lng = 170 /\ tp1.lng = -170) =>
                   /\ tpan.x1 - tpan.x0 = 20 * MercWidth
                   /\ (tpc = "evaluated" /\ tkind \in {"linearPan", "linearZoomAndPan"} /\ 2 * tt = TDen) =>
                          Mod360Eq(tres.lng, 180)

\* C3 witness: the pan from lng 170 to lng -170 evaluated at t = 0.5 is at lng 180
C3_Witness ==
    /\ tpc = "evaluated"
    /\ tkind = "linearPan"
    /\ tp0.lng = 170 /\ tp1.lng = -170
    /\ 2 * tt = TDen
    /\ QEq(tres.lng, 180)

\* C4 as stated: a raw longitude difference of exactly 180 degrees gets the
\* westward offset -1 if lng1 > lng0 and the eastward offset +1 otherwise
C4_TieGetsOffset ==
    (tpc # "none" /\ RawDelta = 180) =>
        tpan.dx1 = (IF tp1.lng > tp0.lng THEN -1 ELSE 1)

\* C4 amended: a raw longitude difference of exactly 180 degrees gets no
\* world-width offset (dx1 = 0, the destination x is the plain projection);
\* only a difference above 180 gets -1 if lng1 > lng0 and +1 otherwise
C4_TieGetsNoOffset ==
    (tpc # "none") =>
        /\ (RawDelta = 180) =>
               (tpan.dx1 = 0 /\ tpan.x1 = projX(tp1.lng))
        /\ (RawDelta > 180) =>
               tpan.dx1 = (IF tp1.lng > tp0.lng THEN -1 ELSE 1)
        /\ (RawDelta < 180) => tpan.dx1 = 0

\* C4 witness: a pan from lng -180 to lng 0 (difference exactly 180) with no offset
C4_Witness ==
    /\ tpc = "created"
    /\ tp0.lng = -180 /\ tp1.lng = 0
    /\ tpan.dx1 = 0

\* C5 as stated: for viewpoints sharing a zoom level the linear pan returns
\* exactly p0 at t = 0 and exactly p1 at t = 1, also across the
\* antimeridian, and the zoom is p0.zoom at every t
C5_EndpointsExact ==
    (tpc = "evaluated" /\ tkind = "linearPan" /\ BothInRange) =>
        /\ QEq(tres.zoom, tp0.zoom)
        /\ (tp0.zoom = tp1.zoom /\ tt = 0) =>
               (QEq(tres.lat, tp0.lat) /\ QEq(tres.lng, tp0.lng))
        /\ (tp0.zoom = tp1.zoom /\ tt = TDen) =>
               (QEq(tres.lat, tp1.lat) /\ QEq(tres.lng, tp1.lng))

\* C5 amended: the linear pan returns p0 at t = 0 and p1 at t = 1 with the
\* longitude equal modulo 360 degrees (normalised into [-180,180]); it is
\* the input longitude itself when that lies in [-180,180] and, for p1, the
\* path does not cross the antimeridian; the zoom is p0.zoom at every t
C5_EndpointsModulo360 ==
    (tpc = "evaluated" /\ tkind = "linearPan") =>
        /\ QEq(tres.zoom, tp0.zoom)
        /\ Abs(tres.lng.num) <= 180 * tres.lng.den
        /\ (tt = 0) =>
               /\ QEq(tres.lat, tp0.lat)
               /\ Mod360Eq(tres.lng, tp0.lng)
               /\ InRange(tp0.lng) => QEq(tres.lng, tp0.lng)
        /\ (tt = TDen) =>
               /\ QEq(tres.lat, tp1.lat)
               /\ Mod360Eq(tres.lng, tp1.lng)
               /\ (InRange(tp1.lng) /\ tpan.dx1 = 0) => QEq(tres.lng, tp1.lng)

\* C5 witness: a pan across the antimeridian to lng -180 that ends at lng 180
C5_Witness ==
    /\ tpc = "evaluated"
    /\ tkind = "linearPan"
    /\ tp0.zoom = tp1.zoom
    /\ tp0.lng = 170 /\ tp1.lng = -180
    /\ tpan.dx1 = 1
    /\ tt = TDen
    /\ QEq(tres.lng, 180)
    /\ QEq(tres.lat, tp1.lat)

\* C6 as stated: the perceived-linear transition of two viewpoints with
\* equal zoom fails with an error and never returns a viewpoint value
C6_EqualZoomFails ==
    ~(tpc = "evaluated" /\ tkind = "perceivedLinear" /\ tp0.zoom = tp1.zoom)

-----------------------------------------------------------------------------
(* TileMap and preloadTransition                                            *)
(*                                                                          *)
(* Tiles are modelled in one row y at one legal zoom level TileZoom, so a   *)
(* tile is its column x (any integer) and its key the wrapped column.       *)
(* JavaScript runs each task to completion and then drains the microtask    *)
(* queue: a fetch settles only when the queue is empty, while a second      *)
(* preloadTransition call may follow a first one in the same task.          *)

TileZoom == 1        \* zoom level of the modelled tiles: 2^TileZoom columns
MaxFrames == 2       \* numberOfFrames is drawn from 0..MaxFrames
NumPreloads == 2     \* concurrent preloadTransition calls on the shared TileMap
maxZoom == 19        \* TileMap constructor default

Procs == 1..NumPreloads
Keys == 0..(2 ^ TileZoom - 1)

RECURSIVE edgeLoop(_, _)
\* while (correctedX < 0) correctedX = correctedX + 2 ** tile.zoom
edgeLoop(x, zoom) == IF x < 0 THEN edgeLoop(x + 2 ^ zoom, zoom) ELSE x

\* TileMap.edgeBehavior: the column wrapped into [0, 2^zoom)
edgeBehavior(x, zoom) == edgeLoop(x, zoom) % (2 ^ zoom)

\* the columns a caller may name: the grid, one grid to its left and one to
\* its right
Columns == (-(2 ^ TileZoom))..(2 ^ (TileZoom + 1) - 1)

\* no bitmap: what getTileImage returns for a key that is not loaded
Undefined == -1

\* TileMap.hasTile(tile): this.tileMap.has(tile.toString()), the key of the
\* tile as given (Tile.toString is `x/y/zoom`)
hasTile(x) == x \in tileMap

\* TileMap.getTileImage(tile): the bitmap stored under the key of the
\* edge-corrected tile; a bitmap is identified by the key it was fetched for
getTileImage(x) ==
    IF edgeBehavior(x, TileZoom) \in tileMap THEN edgeBehavior(x, TileZoom) ELSE Undefined

\* addToTileMap(tile) would fetch: the key of the edge-corrected tile is
\* neither being added nor loaded
addFetches(x) ==
    /\ edgeBehavior(x, TileZoom) \notin currentlyAdding
    /\ edgeBehavior(x, TileZoom) \notin tileMap

\* the inputs of one preloadTransition call: the transition function moves
\* the view from column `from` by `shift` columns, at zoom level `zoom`
Paths == [from : {-1, 0}, shift : 0..2, zoom : {TileZoom, maxZoom + 1}]

\* calculateFrame(canvasSize, transitionFunction(t)).tiles for t = num / den:
\* the column under the view; a NaN viewpoint needs no tile
frameTiles(path, t) ==
    IF IsNaN(t) THEN <<>>
    ELSE << path.from + (path.shift * t.num) \div t.den >>

\* for (let i = 0; i <= numberOfFrames; i++) { const t = i / numberOfFrames; ...
\*   frameArray.push(currentFrame); }
frameArrayOf(path, numberOfFrames) ==
    [j \in 1..(numberOfFrames + 1) |->
        LET t == Q(j - 1, numberOfFrames)
        IN  [t |-> t, tiles |-> frameTiles(path, t)]]

\* the keys of all tiles of all frames of a frame array
requiredKeys(frames, zoom) ==
    {edgeBehavior(frames[j].tiles[i], zoom) :
        j \in { jj \in 1..Len(frames) : Len(frames[jj].tiles) > 0 }, i \in {1}}

\* number of addToTileMap calls the frame loop makes
requestCount(frames) ==
    Cardinality({ j \in 1..Len(frames) : Len(frames[j].tiles) > 0 })

\* this.failedTiles.size: the Tile objects added by the catch-handlers
RECURSIVE failedSize(_)
failedSize(keys) ==
    IF keys = {} THEN 0
    ELSE LET k == CHOOSE kk \in keys : TRUE
         IN  failedTiles[k] + failedSize(keys \ {k})

\* TileMap.getProgress()
getProgress ==
    LET loading == Cardinality(currentlyAdding)
        finished == Cardinality(tileMap)
        failed == failedSize(Keys)
        total == loading + finished
    IN  [loading |-> loading, finished |-> finished - failed, failed |-> failed,
         total |-> total]

\* checkProgress() without the _checkInitiated flag: a microtask per call
checkProgressUnguarded(initiated, queue) == Append(queue, <<"check">>)

\* checkProgress(): queue one microtask unless one is already queued
checkProgress(initiated, queue) ==
    IF initiated THEN queue ELSE Append(queue, <<"check">>)

\* n calls of checkProgress() in a row
RECURSIVE checkProgressTimes(_, _, _)
checkProgressTimes(n, initiated, queue) ==
    IF n = 0 THEN queue
    ELSE checkProgressTimes(n - 1, TRUE, checkProgress(initiated, queue))

\* preloadTransition(transitionFunction, canvasSize, numberOfFrames, tileMap):
\* the synchronous part, up to `await Promise.all(addPromises)`.  Each
\* addToTileMap call runs up to its first await: a tile above maxZoom
\* rejects; a key neither being added nor loaded is added and fetched; any
\* other call runs checkProgress() and its promise is already resolved.
PreloadCall(p, path, numberOfFrames) ==
    /\ ppc[p] = "idle"
    /\ \A q \in Procs : q < p => ppc[q] # "idle"
    /\ micro = <<>> \/ inTask
    /\ inTask' = TRUE
    /\ LET frames == frameArrayOf(path, numberOfFrames)
           legal == path.zoom <= maxZoom
           required == IF legal THEN requiredKeys(frames, path.zoom) ELSE {}
           new == required \ (currentlyAdding \cup tileMap)
           immediate == legal /\ requestCount(frames) > Cardinality(new)
           rejected == ~legal /\ requestCount(frames) > 0
           queue1 == IF immediate
                     THEN checkProgressTimes(requestCount(frames) - Cardinality(new),
                                             checkInitiated, micro)
                     ELSE micro
       IN  /\ pn' = [pn EXCEPT ![p] = numberOfFrames]
           /\ pframes' = [pframes EXCEPT ![p] = frames]
           /\ currentlyAdding' = currentlyAdding \cup new
           /\ fetchState' = [k \in Keys |-> IF k \in new THEN "fetching" ELSE fetchState[k]]
           /\ owner' = [k \in Keys |-> IF k \in new THEN p ELSE owner[k]]
           /\ checkInitiated' = (checkInitiated \/ immediate)
           /\ pawait' = [pawait EXCEPT ![p] = new]
           /\ ppc' = [ppc EXCEPT ![p] = IF rejected THEN "rejected" ELSE "awaiting"]
           /\ micro' = IF ~rejected /\ new = {}
                       THEN Append(queue1, <<"resolve", p>>)
                       ELSE queue1
    /\ UNCHANGED <<tileMap, failedTiles, nLoaded, pinflight>>
    /\ TilesOnly

\* fetchTile: the fetch of key k settles, with a bitmap (then-handler) or
\* with an error (catch-handler: failedTiles.add(tile), resolve(null)).
\* failedTiles.has(tile) is false in the then-handler: the Tile object of
\* this fetch is only ever added by the catch-handler of the same fetch.
FetchSettles(k, ok) ==
    /\ micro = <<>>
    /\ fetchState[k] = "fetching"
    /\ fetchState' = [fetchState EXCEPT ![k] = IF ok THEN "gotBitmap" ELSE "gotNull"]
    /\ failedTiles' = IF ok THEN failedTiles
                      ELSE [failedTiles EXCEPT ![k] = failedTiles[k] + 1]
    /\ micro' = <<<<"continue", k>>>>
    /\ inTask' = FALSE
    /\ UNCHANGED <<tileMap, currentlyAdding, checkInitiated, owner, nLoaded>>
    /\ UNCHANGED preloadVars
    /\ TilesOnly

\* addToTileMap after `await this.fetchTile(...)`:
\*   if (tileBitmap !== null) this.tileMap.set(currentTileKey, tileBitmap);
\*   this.currentlyAdding.delete(currentTileKey); this.checkProgress();
\* and then its promise resolves, which may complete the caller's Promise.all
AddContinues ==
    /\ micro # <<>>
    /\ Head(micro)[1] = "continue"
    /\ LET k == Head(micro)[2]
           p == owner[k]
           left == pawait[p] \ {k}
           queue1 == checkProgress(checkInitiated, Tail(micro))
       IN  /\ tileMap' = IF fetchState[k] = "gotBitmap" THEN tileMap \cup {k} ELSE tileMap
           /\ currentlyAdding' = currentlyAdding \ {k}
           /\ fetchState' = [fetchState EXCEPT ![k] = "idle"]
           /\ checkInitiated' = TRUE
           /\ pawait' = [pawait EXCEPT ![p] = left]
           /\ micro' = IF left = {} THEN Append(queue1, <<"resolve", p>>) ELSE queue1
    /\ inTask' = FALSE
    /\ UNCHANGED <<failedTiles, owner, nLoaded, ppc, pn, pframes, pinflight>>
    /\ TilesOnly

\* the microtask queued by checkProgress
CheckMicrotask ==
    /\ micro # <<>>
    /\ Head(micro)[1] = "check"
    /\ checkInitiated' = FALSE
    /\ nLoaded' = IF currentlyAdding = {} THEN nLoaded + 1 ELSE nLoaded
    /\ micro' = Tail(micro)
    /\ inTask' = FALSE
    /\ UNCHANGED <<tileMap, currentlyAdding, failedTiles, fetchState, owner>>
    /\ UNCHANGED preloadVars
    /\ TilesOnly

\* preloadTransition after `await Promise.all(addPromises)`:
\* return new Transition(frameArray, tileMap)
PreloadResolves ==
    /\ micro # <<>>
    /\ Head(micro)[1] = "resolve"
    /\ LET p == Head(micro)[2]
       IN  /\ ppc' = [ppc EXCEPT ![p] = "resolved"]
           /\ pinflight' = [pinflight EXCEPT ![p] =
                  requiredKeys(pframes[p], TileZoom) \cap currentlyAdding]
    /\ micro' = Tail(micro)
    /\ inTask' = FALSE
    /\ UNCHANGED <<tileMap, currentlyAdding, failedTiles, checkInitiated, fetchState,
                   owner, nLoaded, pn, pframes, pawait>>
    /\ TilesOnly

TilesInit ==
    /\ tileMap = {}
    /\ currentlyAdding = {}
    /\ failedTiles = [k \in Keys |-> 0]
    /\ checkInitiated = FALSE
    /\ fetchState = [k \in Keys |-> "idle"]
    /\ owner = [k \in Keys |-> 1]
    /\ nLoaded = 0
    /\ micro = <<>>
    /\ inTask = FALSE
    /\ ppc = [p \in Procs |-> "idle"]
    /\ pn = [p \in Procs |-> 0]
    /\ pframes = [p \in Procs |-> <<>>]
    /\ pawait = [p \in Procs |-> {}]
    /\ pinflight = [p \in Procs |-> {}]

TilesNext ==
    \/ \E p \in Procs, path \in Paths, n \in 0..MaxFrames : PreloadCall(p, path, n)
    \/ \E k \in Keys, ok \in BOOLEAN : FetchSettles(k, ok)
    \/ AddContinues
    \/ CheckMicrotask
    \/ PreloadResolves

-----------------------------------------------------------------------------
(* Transition: the playback state machine                                   *)
(*                                                                          *)
(* The browser runs, at each animation frame, the callbacks requested since *)
(* the previous one, in the order of the requests; callbacks requested      *)
(* while it does so wait for the next frame.  API calls happen between      *)
(* animation frames.                                                        *)

MaxLen == 4       \* a Transition holds 1..MaxLen frames
MaxCalls == 4     \* API calls made on the Transition

\* the frame the transition starts from: this._reverseDirection ? length - 1 : 0
startIndex == IF rev THEN length - 1 ELSE 0

\* the frame the transition ends at: this._reverseDirection ? 0 : length - 1
endIndex == IF rev THEN 0 ELSE length - 1

\* requestAnimationFrame(cb): the queue with cb appended
\* cancelAnimationFrame(id): the queue without the callback the id names
cancelAnimationFrame(queue, id) ==
    IF id = 0 THEN queue
    ELSE [j \in 1..(Len(queue) - 1) |-> IF j < id THEN queue[j] ELSE queue[j + 1]]

\* renderFrame(context) returns normally: no context (it returns at once) or
\* a frame index inside the frame array.  An index >= length throws 'frame
\* index too large'; a negative one makes renderCanvas read a field of
\* undefined, a TypeError
renderOk(st) == ~ctx \/ (0 <= st.idx /\ st.idx < length)

\* renderFrame(context) having returned normally: the frame is drawn and
\* `render` dispatched, unless there is no context
renderFrame(st) ==
    IF ctx THEN [st EXCEPT !.rendered = st.idx, !.ev = Append(st.ev, "render")]
    ELSE st

\* this._transitionState = FINISHED; dispatch `finish`, then `pause`
finish(st) ==
    [st EXCEPT !.state = "finished", !.ev = st.ev \o <<"finish", "pause">>,
               !.nFin = st.nFin + 1]

\* this.rafId = requestAnimationFrame(cb) from inside a callback
request(st, cb) == [st EXCEPT !.q = Append(st.q, cb), !.rid = Len(st.q) + 1]

\* doFrame's test for the last frame
atEnd(i) == (i >= length - 1 /\ ~rev) \/ (i <= 0 /\ rev)

\* play() requesting doFrame at once, without the callback that draws the current frame
playCallbackDirect(i) == IF i = endIndex THEN "playEnd" ELSE "doFrame"

\* the callback play() requests: at the end of the transition the one that
\* renders and finishes, else the one that renders and starts doFrame
playCallback(i) == IF i = endIndex THEN "playEnd" ELSE "playStart"

\* the callback cancel() requests: requestAnimationFrame(this.doFrame.bind(this))
cancelCallback == "doFrame"

\* one animation-frame callback run on the state st
runCallback(cb, st) ==
    CASE cb = "render" ->
           \* (_) => this.renderFrame(this.context), from the index setter
           IF renderOk(st) THEN renderFrame(st) ELSE [st EXCEPT !.threw = TRUE]
      [] cb = "playEnd" ->
           IF renderOk(st) THEN finish(renderFrame(st)) ELSE [st EXCEPT !.threw = TRUE]
      [] cb = "playStart" ->
           IF renderOk(st) THEN request(renderFrame(st), "doFrame")
           ELSE [st EXCEPT !.threw = TRUE]
      [] cb = "doFrame" ->
           LET s1 == [st EXCEPT !.idx = st.idx + (IF rev THEN -1 ELSE 1),
                                !.ev = Append(st.ev, "frame")]
           IN  IF ~renderOk(s1) THEN [s1 EXCEPT !.threw = TRUE]
               ELSE LET s2 == renderFrame(s1)
                        s3 == IF atEnd(s2.idx) THEN finish(s2) ELSE s2
                    IN  IF s3.state = "running" THEN request(s3, "doFrame") ELSE s3

RECURSIVE runCallbacks(_, _)
runCallbacks(queue, st) ==
    IF queue = <<>> THEN st ELSE runCallbacks(Tail(queue), runCallback(Head(queue), st))

\* set reversed(rev)
SetReversed(b) ==
    /\ calls < MaxCalls
    /\ rev' = b
    /\ events' = <<>>
    /\ threw' = FALSE
    /\ lastStep' = "setReversed"
    /\ calls' = calls + 1
    /\ UNCHANGED <<length, tstate, currentFrameIndex, ctx, rafq, rafId, rendered, nPlay, nFinish>>
    /\ UNCHANGED quiet
    /\ PlayOnly

\* initialize(context)
Initialize ==
    /\ calls < MaxCalls
    /\ ctx' = TRUE
    /\ tstate' = "paused"
    /\ currentFrameIndex' = startIndex
    /\ rendered' = startIndex
    /\ events' = <<"frame", "render">>
    /\ threw' = FALSE
    /\ lastStep' = "initialize"
    /\ calls' = calls + 1
    /\ UNCHANGED <<length, rev, rafq, rafId, nPlay, nFinish>>
    /\ quiet' = FALSE
    /\ PlayOnly

\* set currentFrameIndex(i)
SetIndex(i) ==
    /\ calls < MaxCalls
    /\ IF i < 0 \/ i >= length
       THEN /\ threw' = TRUE
            /\ events' = <<>>
            /\ UNCHANGED <<currentFrameIndex, rafq, rafId>>
       ELSE /\ threw' = FALSE
            /\ currentFrameIndex' = i
            /\ events' = <<"frame">>
            /\ IF tstate # "running"
               THEN /\ rafq' = Append(rafq, "render")
                    /\ rafId' = Len(rafq) + 1
               ELSE UNCHANGED <<rafq, rafId>>
    /\ lastStep' = "setIndex"
    /\ calls' = calls + 1
    /\ UNCHANGED <<length, tstate, rev, ctx, rendered, nPlay, nFinish>>
    /\ quiet' = FALSE
    /\ PlayOnly

\* play()
Play ==
    /\ calls < MaxCalls
    /\ rafq' = Append(rafq, playCallback(currentFrameIndex))
    /\ rafId' = Len(rafq) + 1
    /\ tstate' = "running"
    /\ events' = <<"play">>
    /\ threw' = FALSE
    /\ lastStep' = "play"
    /\ nPlay' = nPlay + 1
    /\ calls' = calls + 1
    /\ UNCHANGED <<length, currentFrameIndex, rev, ctx, rendered, nFinish>>
    /\ quiet' = FALSE
    /\ PlayOnly

\* pause()
Pause ==
    /\ calls < MaxCalls
    /\ rafq' = cancelAnimationFrame(rafq, rafId)
    /\ rafId' = 0
    /\ tstate' = "paused"
    /\ events' = <<"pause">>
    /\ threw' = FALSE
    /\ lastStep' = "pause"
    /\ calls' = calls + 1
    /\ UNCHANGED <<length, currentFrameIndex, rev, ctx, rendered, nPlay, nFinish>>
    /\ quiet' = TRUE
    /\ PlayOnly

\* cancel()
Cancel ==
    /\ calls < MaxCalls
    /\ LET q == cancelAnimationFrame(rafq, rafId)
       IN  /\ rafq' = Append(q, cancelCallback)
           /\ rafId' = Len(q) + 1
    /\ tstate' = "paused"
    /\ currentFrameIndex' = startIndex
    /\ events' = <<"cancel", "pause">>
    /\ threw' = FALSE
    /\ lastStep' = "cancel"
    /\ calls' = calls + 1
    /\ UNCHANGED <<length, rev, ctx, rendered, nPlay, nFinish>>
    /\ quiet' = FALSE
    /\ PlayOnly

\* one browser animation frame: the pending callbacks run in request order
BrowserFrame ==
    /\ rafq # <<>>
    /\ LET st0 == [state |-> tstate, idx |-> currentFrameIndex, rendered |-> rendered, ev |-> <<>>,
                   q |-> <<>>, rid |-> 0, threw |-> FALSE, nFin |-> nFinish]
           st == runCallbacks(rafq, st0)
       IN  /\ tstate' = st.state
           /\ currentFrameIndex' = st.idx
           /\ rendered' = st.rendered
           /\ events' = st.ev
           /\ rafq' = st.q
           /\ rafId' = st.rid
           /\ threw' = st.threw
           /\ nFinish' = st.nFin
    /\ lastStep' = "frame"
    /\ UNCHANGED <<length, rev, ctx, nPlay, calls>>
    /\ UNCHANGED quiet
    /\ PlayOnly

PlayInit ==
    /\ length \in 1..MaxLen
    /\ tstate = "uninitialized"
    /\ currentFrameIndex = 0
    /\ rev = FALSE
    /\ ctx = FALSE
    /\ rafq = <<>>
    /\ rafId = 0
    /\ rendered = -1
    /\ events = <<>>
    /\ threw = FALSE
    /\ lastStep = "new"
    /\ nPlay = 0
    /\ nFinish = 0
    /\ calls = 0
    /\ quiet = FALSE

PlayNext ==
    \/ \E b \in BOOLEAN : SetReversed(b)
    \/ Initialize
    \/ \E i \in -1..length : SetIndex(i)
    \/ Play
    \/ Pause
    \/ Cancel
    \/ BrowserFrame

\* the scenario of a single play(): the direction is chosen first, then
\* initialize(), optionally one assignment to currentFrameIndex, then one
\* play() away from the end, and from then on only animation frames
PlayOnceNext ==
    \/ \E b \in BOOLEAN : calls = 0 /\ SetReversed(b)
    \/ ~ctx /\ Initialize
    \/ \E i \in -1..length : ctx /\ nPlay = 0 /\ lastStep # "setIndex" /\ SetIndex(i)
    \/ ctx /\ nPlay = 0 /\ currentFrameIndex # endIndex /\ Play
    \/ BrowserFrame

-----------------------------------------------------------------------------
(* Claims about preloadTransition *)

\* C7 as stated: when the promise of a preloadTransition call resolves, no
\* tile required by its frames is still being fetched, also with several
\* calls running concurrently on the shared TileMap
C7_ResolvedMeansFetched ==
    \A p \in Procs : (ppc[p] = "resolved") => (pinflight[p] = {})

\* C8 as stated: the resolved Transition holds exactly numberOfFrames frames,
\* at evenly spaced times running from 0 to 1
C8_LengthIsNumberOfFrames ==
    \A p \in Procs : (ppc[p] = "resolved" /\ pn[p] >= 1) =>
        /\ Len(pframes[p]) = pn[p]
        /\ QEq(pframes[p][1].t, 0)
        /\ QEq(pframes[p][Len(pframes[p])].t, 1)
        /\ \A j \in 1..Len(pframes[p]) : pframes[p][j].t = Q(j - 1, pn[p])

-----------------------------------------------------------------------------
(* Claims about Transition playback *)

\* the direction of playback: this._reverseDirection ? -1 : 1
direction == IF rev THEN -1 ELSE 1

\* the step is a browser animation frame after the single play()
FrameAfterPlay == nPlay = 1 /\ lastStep' = "frame"

\* the single play() has run to the end and nothing is pending
PlayedToEnd ==
    /\ tstate = "finished"
    /\ currentFrameIndex = endIndex
    /\ rendered = endIndex
    /\ nFinish = 1
    /\ rafq = <<>>

C10_CancelRendersStartFrame ==
    [][/\ lastStep' = "cancel" => (tstate' = "paused" /\ Head(events') = "cancel")
       /\ (lastStep = "cancel" /\ ctx /\ nPlay = 1 /\ length >= 3 /\ lastStep' = "frame") =>
              /\ tstate' = "paused"
              /\ currentFrameIndex' = startIndex
              /\ rendered' = startIndex]_vars

\* C11 as stated: pause() sets the state to paused and dispatches `pause`
\* at once, and from then until the next play(), cancel(), initialize() or
\* assignment to currentFrameIndex the state stays paused, the frame index
\* does not change and no `frame` event is dispatched, whatever was called
\* before; here for an initialized transition on which play() was called
\* twice.
C11_PauseStopsAnimation ==
    [][/\ lastStep' = "pause" => (tstate' = "paused" /\ events' = <<"pause">>)
       /\ (quiet /\ quiet' /\ ctx /\ nPlay = 2) =>
              /\ tstate' = "paused"
              /\ currentFrameIndex' = currentFrameIndex
              /\ \A j \in 1..Len(events') : events'[j] # "frame"]_vars

-----------------------------------------------------------------------------
(* Frame: calculateFrame, project, unproject                                *)
(*                                                                          *)
(* Zoom levels are integers here, so the world is 256 * 2^zoom pixels wide  *)
(* and all pixel arithmetic is exact.  A latitude is represented by its     *)
(* Web-Mercator ordinate v = (1 - ln(tan(lat) + sec(lat)) / pi) / 2, the    *)
(* fraction of the world's height from its top edge (v = 1/2 is the         *)
(* equator): unproject computes lat = atan(sinh(pi - 2 pi v)) and project   *)
(* computes v back from lat, and the two functions are inverse.             *)
(* project is the method from coordinates to canvas pixels and unproject    *)
(* the one from canvas pixels to coordinates, as in the README.             *)

MaxFrameZoom == 1    \* zoom levels of frames are 0..MaxFrameZoom
LatDen == 3          \* latitudes of viewpoints have ordinates k / LatDen
TileSize == 256      \* the tile resolution calculateFrame assumes

worldSize(zoom) == TileSize * 2^zoom

\* Math.floor(a / b) and Math.ceil(a / b) for b > 0
floorDiv(a, b) == a \div b
ceilDiv(a, b) == -((-a) \div b)

\* d3-tile with clamping: only the tiles 0 <= index < 2^zoom that meet
\* the pixels [c - size/2, c + size/2] around the position c
tileIndicesClamped(c, size, zoom) ==
    LET lo == floorDiv(2 * c.num - c.den * size, 2 * c.den * TileSize)
        hi == ceilDiv(2 * c.num + c.den * size, 2 * c.den * TileSize)
    IN  (IF lo < 0 THEN 0 ELSE lo)..((IF hi > 2^zoom THEN 2^zoom ELSE hi) - 1)

\* d3-tile with clampX(false) and clampY(false): the tile indices lo <= i < hi
\* with lo = floor((c - size/2) / 256) and hi = ceil((c + size/2) / 256)
tileIndices(c, size, zoom) ==
    LET lo == floorDiv(2 * c.num - c.den * size, 2 * c.den * TileSize)
        hi == ceilDiv(2 * c.num + c.den * size, 2 * c.den * TileSize)
    IN  lo..(hi - 1)

\* calculateFrame(canvasSize, currentPoint): the offset is the floored pixel
\* position of the viewpoint; d3-tile lists the tiles that meet the canvas
\* rectangle around the unfloored position
calculateFrame(canvasSize, currentPoint) ==
    LET W == worldSize(currentPoint.zoom)
        cx == Q((currentPoint.lng + 180) * W, 360)     \* pixel position of the centre
        cy == Q(currentPoint.lat.num * W, currentPoint.lat.den)
    IN  [tiles |-> {[x |-> x, y |-> y, zoom |-> currentPoint.zoom] :
                        x \in tileIndices(cx, canvasSize.x, currentPoint.zoom),
                        y \in tileIndices(cy, canvasSize.y, currentPoint.zoom)},
         offset |-> [x |-> floorDiv(cx.num, cx.den), y |-> floorDiv(cy.num, cy.den)],
         canvasSize |-> canvasSize,
         zoom |-> currentPoint.zoom]

\* while (lng > 180) lng -= 360; while (lng < -180) lng += 360
RECURSIVE wrapLng(_)
wrapLng(lng) ==
    IF lng.num > 180 * lng.den THEN wrapLng(Q(lng.num - 360 * lng.den, lng.den))
    ELSE IF lng.num < -180 * lng.den THEN wrapLng(Q(lng.num + 360 * lng.den, lng.den))
    ELSE lng

\* Frame.unproject(canvasCoordinate): the coordinate shown at a canvas point
unproject(f, canvasCoordinate) ==
    LET W == worldSize(f.zoom)
        \* pixelCoords, in half pixels
        px2 == 2 * f.offset.x + 2 * canvasCoordinate.x - f.canvasSize.x
        py2 == 2 * f.offset.y + 2 * canvasCoordinate.y - f.canvasSize.y
    IN  [lng |-> wrapLng(Q(360 * px2 - 360 * W, 2 * W)), lat |-> Q(py2, 2 * W)]

\* Frame.project without the two branches for points across the antimeridian
projectXNoWrap(f, x) == x - f.offset.x

\* Frame.project without the branch for a frame centre east of the point
projectXOneSided(f, x) ==
    LET maxX == worldSize(f.zoom)
    IN  IF 2 * Abs(x - f.offset.x) <= maxX THEN x - f.offset.x
        ELSE IF x < f.offset.x THEN x + (maxX - f.offset.x)
        ELSE x - f.offset.x

\* Frame.project: the x relative to the frame centre, by the shorter way round
projectX(f, x) ==
    LET maxX == worldSize(f.zoom)
    IN  IF 2 * Abs(x - f.offset.x) <= maxX THEN x - f.offset.x
        ELSE IF x < f.offset.x THEN x + (maxX - f.offset.x)
        ELSE IF x > f.offset.x THEN -(maxX - x + f.offset.x)
        ELSE x

\* Frame.project({lat, lng}): the canvas point of a coordinate
project(f, coord) ==
    LET W == worldSize(f.zoom)
        x == floorDiv((coord.lng.num + 180 * coord.lng.den) * W, 360 * coord.lng.den)
        y == floorDiv(coord.lat.num * W, coord.lat.den)
    IN  [x |-> Q(2 * projectX(f, x) + f.canvasSize.x, 2),
         y |-> Q(2 * (y - f.offset.y) + f.canvasSize.y, 2)]

\* inputs
CanvasSizes == {[x |-> 100, y |-> 80], [x |-> 101, y |-> 81], [x |-> 256, y |-> 128],
                [x |-> 300, y |-> 200]}

FrameViewPoints ==
    [lng : {-180, -179, -90, 0, 1, 179, 180}, lat : {Q(1, LatDen), Q(1, 2)},
     zoom : 0..MaxFrameZoom]

InsetStep == 10    \* the `offset` arguments are -InsetStep, 0 and InsetStep
Insets == {-InsetStep, 0, InsetStep}

CanvasPoints(f) ==
    [x : {0, 1, InsetStep, f.canvasSize.x \div 2, f.canvasSize.x - InsetStep,
          f.canvasSize.x - 1, f.canvasSize.x},
     y : {0, InsetStep, f.canvasSize.y \div 2, f.canvasSize.y - InsetStep,
          f.canvasSize.y - 1, f.canvasSize.y}]

Coordinates == [lng : {Q(-180, 1), Q(-90, 1), Q(0, 1), Q(179, 1), Q(180, 1)},
                lat : {Q(1, LatDen), Q(1, 2)}]

NoFrame == [tiles |-> {}, offset |-> [x |-> 0, y |-> 0], canvasSize |-> [x |-> 0, y |-> 0],
            zoom |-> 0]
NoPoint == [x |-> 0, y |-> 0]
NoCoordinate == [lng |-> Q(0, 1), lat |-> Q(1, 2)]

\* calculateFrame, once: a Frame is immutable
CalculateFrame(canvasSize, currentPoint) ==
    /\ fop = "new"
    /\ frame' = calculateFrame(canvasSize, currentPoint)
    /\ fop' = "calculateFrame"
    /\ fpoint' = NoPoint
    /\ fcoord' = NoCoordinate
    /\ finset' = 0
    /\ fresult' = 0
    /\ FrameOnly

\* the methods are pure and a Frame is immutable: one coordinate or canvas
\* point per behaviour, and one method applied to it
Unproject(p) ==
    /\ fop = "calculateFrame"
    /\ fop' = "unproject"
    /\ fpoint' = p
    /\ fcoord' = unproject(frame, p)
    /\ fresult' = 0
    /\ UNCHANGED <<frame, finset>>
    /\ FrameOnly

\* project applied to a coordinate of the grid
Project(coord) ==
    /\ fop = "calculateFrame"
    /\ fop' = "project"
    /\ fcoord' = coord
    /\ fresult' = project(frame, coord)
    /\ UNCHANGED <<frame, fpoint, finset>>
    /\ FrameOnly

\* project applied to what unproject has just returned
ProjectBack ==
    /\ fop = "unproject"
    /\ fop' = "projectBack"
    /\ fresult' = project(frame, fcoord)
    /\ UNCHANGED <<frame, fpoint, fcoord, finset>>
    /\ FrameOnly

\* An angle in (-pi, pi] is represented by a vector pointing in its
\* direction.  Math.atan2(y, x), with atan2(0, 0) = 0
atan2(y, x) == IF x = 0 /\ y = 0 THEN [x |-> 1, y |-> 0] ELSE [x |-> x, y |-> y]

\* -a, -pi + a and pi - a for 0 < a < pi; pi/2 + a, 3 pi/2 - a and -a + pi
\* up to a multiple of 2 pi
negAngle(a) == [x |-> a.x, y |-> -a.y]
minusPiPlus(a) == [x |-> -a.x, y |-> -a.y]
piMinus(a) == [x |-> -a.x, y |-> a.y]
halfPiPlus(a) == [x |-> -a.y, y |-> a.x]
threeHalfPiMinus(a) == [x |-> -a.y, y |-> -a.x]

\* where an angle lies: (-pi,0), {0}, (0,pi), {pi}
angleHalf(a) == IF a.y < 0 THEN 0 ELSE IF a.y > 0 THEN 2 ELSE IF a.x > 0 THEN 1 ELSE 3

\* a < b and a >= b for angles in (-pi, pi]
angleLess(a, b) ==
    \/ angleHalf(a) < angleHalf(b)
    \/ angleHalf(a) = angleHalf(b) /\ a.x * b.y - a.y * b.x > 0
angleGeq(a, b) == ~angleLess(a, b)

\* Math.tan
tan(a) == Q(a.y, a.x)

\* c0/2 + (c1/2) * t + offset for integers c0, c1, offset and a quotient t
alongBorder(c0, c1, t, offset) ==
    LET sgn == IF t.den < 0 THEN -1 ELSE 1
        den == 2 * sgn * t.den
    IN  Q(c0 * sgn * t.den + c1 * sgn * t.num + offset * den, den)

\* borderPosition with the ties between right and bottom going to bottom
rightBorderStrict(dir, aspectDir) ==
    angleLess(negAngle(aspectDir), dir) /\ angleLess(dir, aspectDir)

\* borderPosition's first test: -aspectDir < dir && aspectDir >= dir
rightBorder(dir, aspectDir) ==
    angleLess(negAngle(aspectDir), dir) /\ angleGeq(aspectDir, dir)

\* Frame.borderPosition(pos, offset)
borderPosition(f, pos, offset) ==
    LET point == project(f, pos)
        width == f.canvasSize.x - 2 * offset
        height == f.canvasSize.y - 2 * offset
        aspectDir == atan2(height, width)
        \* point.x - canvasSize.x / 2 and point.y - canvasSize.y / 2, in half pixels
        dir == atan2(point.y.num - f.canvasSize.y, point.x.num - f.canvasSize.x)
    IN  IF rightBorder(dir, aspectDir)
        THEN [x |-> Q(width + offset, 1),
              y |-> alongBorder(height, width, tan(dir), offset),
              border |-> "right", direction |-> dir]
        ELSE IF angleLess(minusPiPlus(aspectDir), dir) /\ angleGeq(negAngle(aspectDir), dir)
        THEN [x |-> alongBorder(width, height, tan(halfPiPlus(dir)), offset),
              y |-> Q(offset, 1),
              border |-> "top", direction |-> dir]
        ELSE IF angleLess(aspectDir, dir) /\ angleGeq(piMinus(aspectDir), dir)
        THEN [x |-> alongBorder(width, height, tan(threeHalfPiMinus(dir)), offset),
              y |-> Q(height + offset, 1),
              border |-> "bottom", direction |-> dir]
        ELSE [x |-> Q(offset, 1),
              y |-> alongBorder(height, width, tan(piMinus(dir)), offset),
              border |-> "left", direction |-> dir]

\* borderPosition of the coordinate last returned by unproject or given to project
BorderPosition(offset) ==
    /\ fop \in {"unproject", "project"}
    /\ fop' = "borderPosition"
    /\ finset' = offset
    /\ fresult' = borderPosition(frame, fcoord, offset)
    /\ UNCHANGED <<frame, fpoint, fcoord>>
    /\ FrameOnly

\* isCoordinateVisible with a canvas that includes its right and lower edge
isCoordinateVisibleInclusive(f, coord) ==
    LET p == project(f, coord)
    IN  ~(p.x.num < 0 \/ p.y.num < 0 \/ p.x.num > f.canvasSize.x * p.x.den
          \/ p.y.num > f.canvasSize.y * p.y.den)

\* Frame.isCoordinateVisible(coord)
isCoordinateVisible(f, coord) ==
    LET p == project(f, coord)
    IN  ~(p.x.num < 0 \/ p.y.num < 0 \/ p.x.num >= f.canvasSize.x * p.x.den
          \/ p.y.num >= f.canvasSize.y * p.y.den)

\* isCoordinateVisible of the coordinate last returned by unproject or given
\* to project; the method declares one parameter, so a second argument
\* `offset` of the call is not looked at
IsCoordinateVisible(offset) ==
    /\ fop \in {"unproject", "project"}
    /\ fop' = "isCoordinateVisible"
    /\ finset' = offset
    /\ fresult' = isCoordinateVisible(frame, fcoord)
    /\ UNCHANGED <<frame, fpoint, fcoord>>
    /\ FrameOnly

FrameInit ==
    /\ frame = NoFrame
    /\ fop = "new"
    /\ fpoint = NoPoint
    /\ fcoord = NoCoordinate
    /\ finset = 0
    /\ fresult = 0

FrameNext ==
    \/ \E size \in CanvasSizes, v \in FrameViewPoints : CalculateFrame(size, v)
    \/ \E p \in CanvasPoints(frame) : Unproject(p)
    \/ \E c \in Coordinates : Project(c)
    \/ ProjectBack
    \/ \E offset \in Insets : BorderPosition(offset)
    \/ \E offset \in Insets : IsCoordinateVisible(offset)

-----------------------------------------------------------------------------
(* Claims about Frame *)

PixelTolerance == 1    \* a round trip may move a point by up to one pixel

\* |q - n| <= tol for a quotient q and integers n, tol
Within(q, n, tol) == Abs(q.num - n * q.den) <= tol * q.den

\* 0 <= p.x < canvasSize.x and 0 <= p.y < canvasSize.y
InCanvas(p) ==
    /\ 0 <= p.x /\ p.x < frame.canvasSize.x
    /\ 0 <= p.y /\ p.y < frame.canvasSize.y

RoundTripExact ==
    /\ Within(fresult.x, fpoint.x, PixelTolerance)
    /\ Within(fresult.y, fpoint.y, PixelTolerance)

\* C12 as stated: for every frame and every point p of the canvas,
\* project(unproject(p)) is p up to one pixel, also when the frame straddles
\* the antimeridian or its canvas is wider than the world.
C12_RoundTripAnyFrame == (fop = "projectBack" /\ InCanvas(fpoint)) => RoundTripExact

\* C12 (amended): for every frame whose canvas is narrower than the world
\* at its zoom (canvasSize.x < 256 * 2^zoom) and every point p of the
\* canvas, project(unproject(p)) is p up to one pixel, also when the frame
\* straddles the antimeridian; a canvas at least as wide as the world shows
\* some coordinates more than once and project returns the occurrence
\* nearest the centre.
C12_RoundTripNarrowFrame ==
    (fop = "projectBack" /\ InCanvas(fpoint) /\ frame.canvasSize.x < worldSize(frame.zoom))
        => RoundTripExact

\* a round trip of a point shown beyond the antimeridian
C12_Witness ==
    /\ fop = "projectBack"
    /\ InCanvas(fpoint)
    /\ frame.canvasSize.x < worldSize(frame.zoom)
    /\ 2 * frame.offset.x + 2 * fpoint.x - frame.canvasSize.x < 0
    /\ RoundTripExact

\* the point the coordinate of the last call projects to, relative to the
\* canvas centre, in half pixels
fdx == project(frame, fcoord).x.num - frame.canvasSize.x
fdy == project(frame, fcoord).y.num - frame.canvasSize.y

\* the canvas inset by the offset of the last call
insetWidth == frame.canvasSize.x - 2 * finset
insetHeight == frame.canvasSize.y - 2 * finset

\* q lies in [lo, hi] for a quotient q with positive denominator
Between(q, lo, hi) == lo * q.den <= q.num /\ q.num <= hi * q.den

\* the returned point lies on the named side of the inset canvas
OnNamedSide ==
    LET r == fresult
        lo == finset
        hix == frame.canvasSize.x - finset
        hiy == frame.canvasSize.y - finset
    IN  /\ r.x.den > 0 /\ r.y.den > 0
        /\ r.border = "right" => (r.x = Q(hix, 1) /\ Between(r.y, lo, hiy))
        /\ r.border = "left" => (r.x = Q(lo, 1) /\ Between(r.y, lo, hiy))
        /\ r.border = "top" => (r.y = Q(lo, 1) /\ Between(r.x, lo, hix))
        /\ r.border = "bottom" => (r.y = Q(hiy, 1) /\ Between(r.x, lo, hix))

\* C13: borderPosition names the border by the direction dir from the canvas
\* centre to the projected point against the diagonal of the inset canvas
\* (slope height/width): right iff -aspectDir < dir <= aspectDir, top iff
\* -pi+aspectDir < dir <= -aspectDir, bottom iff aspectDir < dir <=
\* pi-aspectDir, left otherwise, written here with slopes; due east gives
\* right and straight up gives top; and the returned point lies on the
\* named side of the canvas inset by offset.
C13_BorderByDirection ==
    fop = "borderPosition" =>
        LET w == insetWidth
            h == insetHeight
            centre == fdx = 0 /\ fdy = 0
            right == centre \/ (fdx > 0 /\ -h * fdx < w * fdy /\ w * fdy <= h * fdx)
            top == fdy < 0 /\ -w * (-fdy) < h * fdx /\ h * fdx <= w * (-fdy)
            bottom == fdy > 0 /\ -w * fdy <= h * fdx /\ h * fdx < w * fdy
        IN  /\ (fresult.border = "right") <=> right
            /\ (fresult.border = "top") <=> top
            /\ (fresult.border = "bottom") <=> bottom
            /\ (fresult.border = "left") <=> ~(right \/ top \/ bottom)
            /\ (fdx > 0 /\ fdy = 0) => fresult.border = "right"
            /\ (fdx = 0 /\ fdy < 0) => fresult.border = "top"
            /\ OnNamedSide

\* a point exactly towards the lower right corner of the inset canvas
C13_Witness ==
    /\ fop = "borderPosition"
    /\ finset # 0
    /\ fdx > 0
    /\ insetWidth * fdy = insetHeight * fdx
    /\ fresult.border = "right"
    /\ fresult.x = Q(frame.canvasSize.x - finset, 1)
    /\ QEq(fresult.y, frame.canvasSize.y - finset)

\* the projected point of the last call lies in [inset, canvasSize - inset)
\* on both axes
ProjectsInside(inset) ==
    LET p == project(frame, fcoord)
    IN  /\ inset * p.x.den <= p.x.num /\ p.x.num < (frame.canvasSize.x - inset) * p.x.den
        /\ inset * p.y.den <= p.y.num /\ p.y.num < (frame.canvasSize.y - inset) * p.y.den

\* C14 as stated: isCoordinateVisible(coord, offset) is true iff the
\* projected point p has offset <= p.x < canvasSize.x - offset and
\* offset <= p.y < canvasSize.y - offset.
C14_VisibleWithinInset ==
    fop = "isCoordinateVisible" => (fresult <=> ProjectsInside(finset))

\* C14 (amended): isCoordinateVisible(coord) takes no offset; whatever else
\* is passed, it is true iff the projected point p has 0 <= p.x <
\* canvasSize.x and 0 <= p.y < canvasSize.y.
C14_VisibleWithinCanvas ==
    fop = "isCoordinateVisible" => (fresult <=> ProjectsInside(0))

\* a coordinate shown exactly on the right edge of the canvas is not visible
C14_Witness ==
    /\ fop = "isCoordinateVisible"
    /\ project(frame, fcoord).x = Q(2 * frame.canvasSize.x, 2)
    /\ fresult = FALSE

\* the tile holding the world position unproject finds at a canvas point:
\* pixelCoords = offset + canvasCoordinate - canvasSize / 2, unclamped
shownTile(f, p) ==
    [x |-> floorDiv(2 * f.offset.x + 2 * p.x - f.canvasSize.x, 2 * TileSize),
     y |-> floorDiv(2 * f.offset.y + 2 * p.y - f.canvasSize.y, 2 * TileSize),
     zoom |-> f.zoom]

\* the four corners of the canvas, moved inwards by d pixels
Corners(f, d) == [x : {d, f.canvasSize.x - d}, y : {d, f.canvasSize.y - d}]

\* C15 as stated: the world position shown at each of the four corners of
\* the canvas lies in a tile of the frame's tile list.
C15_CornersCovered ==
    fop # "new" => \A p \in Corners(frame, 0) : shownTile(frame, p) \in frame.tiles

\* C15 (amended): the world position shown at every canvas point p with
\* 1 <= p.x <= W - 1 and 1 <= p.y <= H - 1, in particular at the four
\* corners moved one pixel inwards, lies in a tile of the frame's tile
\* list; the tile coordinates are unclamped.
C15_InnerCornersCovered ==
    fop # "new" =>
        \A p \in Corners(frame, 1) \cup
                 {[x |-> frame.canvasSize.x \div 2, y |-> frame.canvasSize.y \div 2]} :
            shownTile(frame, p) \in frame.tiles

\* a frame across the antimeridian: its left corners lie in tiles of negative x
C15_Witness ==
    /\ fop = "calculateFrame"
    /\ shownTile(frame, [x |-> 1, y |-> 1]).x < 0
    /\ shownTile(frame, [x |-> frame.canvasSize.x - 1, y |-> 1]).x >= 0
    /\ shownTile(frame, [x |-> 1, y |-> 1]) \in frame.tiles

-----------------------------------------------------------------------------
(* Claims about TileMap *)

\* C16 as stated: a tile is identified by its canonical key: once a tile
\* is loaded, for every column x congruent to it modulo 2^zoom hasTile is
\* true, getTileImage returns its bitmap and addToTileMap starts no fetch.
C16_CanonicalIdentity ==
    \A x \in Columns :
        edgeBehavior(x, TileZoom) \in tileMap =>
            /\ hasTile(x)
            /\ getTileImage(x) = edgeBehavior(x, TileZoom)
            /\ ~addFetches(x)

\* the preloadTransition calls that made addToTileMap calls of legal zoom
Batches == {p \in Procs : ppc[p] \in {"awaiting", "resolved"} /\ requestCount(pframes[p]) > 0}

\* no fetch is in flight and no microtask is pending
AllQuiet == micro = <<>> /\ currentlyAdding = {}

\* C17: `loaded` is dispatched only when no tile is being added, one event
\* at a time; once a batch of addToTileMap calls and all its fetches are
\* over, it has been dispatched exactly once for a single batch, and at
\* least once and at most once per batch for two batches, whether the
\* fetches succeeded or failed and in whatever order.
C17_LoadedOncePerBatch ==
    /\ [][nLoaded' # nLoaded =>
            /\ nLoaded' = nLoaded + 1
            /\ currentlyAdding = {}
            /\ \A k \in Keys : fetchState[k] = "idle"]_vars
    /\ [](currentlyAdding # {} /\ Cardinality(Batches) = 1 => nLoaded = 0)
    /\ [](AllQuiet /\ Batches # {} => (1 <= nLoaded /\ nLoaded <= Cardinality(Batches)))

\* one batch of two tiles, one of which failed, is over
C17_Witness ==
    /\ AllQuiet
    /\ Cardinality(Batches) = 1
    /\ \E p \in Batches : Cardinality(requiredKeys(pframes[p], TileZoom)) = 2
    /\ \E k \in Keys : failedTiles[k] > 0
    /\ tileMap # {}
    /\ nLoaded = 1

\* C18 as stated: getProgress() returns loading = the number of tiles being
\* fetched, finished = the number of tiles loaded successfully, failed = the
\* number of tiles whose fetch failed, total = loading + failed + finished,
\* and none of the four is negative.
C18_ProgressCounts ==
    LET g == getProgress
    IN  /\ g.loading = Cardinality(currentlyAdding)
        /\ g.finished = Cardinality(tileMap)
        /\ g.failed = failedSize(Keys)
        /\ g.total = g.loading + g.failed + g.finished
        /\ g.loading >= 0 /\ g.finished >= 0 /\ g.failed >= 0 /\ g.total >= 0

-----------------------------------------------------------------------------
(* Claims about rejected arguments *)

\* C19: joinTransitions throws when it is called, before any function is
\* returned or evaluated, exactly when the list of functions is empty or a
\* weights array of another length is passed; calcZoomFitPoints throws
\* exactly when it is given fewer than 2 coordinates.
C19_RejectedEagerly ==
    /\ jpc # "none" =>
           ((jpc = "threw") <=> (jn = 0 \/ (jgiven /\ Len(jweights) # jn)))
    /\ jpc = "threw" => jcall = NoCall
    /\ zpc # "none" => ((zpc = "threw") <=> (zn < 2))

\* two functions joined with three weights, and one coordinate to fit
C19_Witness ==
    /\ jpc = "threw" /\ jn = 2 /\ jgiven /\ Len(jweights) = 3
    /\ zpc = "threw" /\ zn = 1

-----------------------------------------------------------------------------
(* Claims about createBoxTransition *)

\* the returned position is the viewpoint's: same latitude, same meridian
AtPosition(res, p) == QEq(res.lat, p.lat) /\ Mod360Eq(res.lng, p.lng)

\* the returned viewpoint is exactly (p, zoom) for a longitude in [-180,180]
ExactlyAt(res, p, zoom) ==
    /\ QEq(res.lat, p.lat)
    /\ InRange(p.lng) => QEq(res.lng, p.lng)
    /\ QEq(res.zoom, zoom)

\* q = (a * (den - n) + b * n) / den, the linear interpolation from a to b at n / den
LinearAt(q, a, b, n, den) == q.den > 0 /\ q.num * den = (a * (den - n) + b * n) * q.den

\* C20: the box transition is three phases of equal length: for t in
\* [0,1/3] the position stays at p0 and the zoom goes linearly from p0.zoom
\* to the panning zoom z1 (minZoom when given); for t in [1/3,2/3] the zoom
\* is z1 and the position is that of the linear pan from p0 to p1 at 3t - 1;
\* for t in [2/3,1] the position stays at p1 and the zoom goes linearly from
\* z1 to p1.zoom; the result is p0 at t = 0 and p1 at t = 1, and the phases
\* agree at t = 1/3 and t = 2/3.  Positions are compared as points of the
\* globe: equal latitude, longitude equal modulo 360 degrees.
C20_BoxThreePhases ==
    (tpc = "evaluated" /\ tkind = "box") =>
        /\ 3 * tt <= TDen =>
               /\ AtPosition(tres, tp0)
               /\ LinearAt(tres.zoom, tp0.zoom, tmin, 3 * tt, TDen)
        /\ (TDen <= 3 * tt /\ 3 * tt <= 2 * TDen) =>
               /\ QEq(tres.zoom, tmin)
               /\ LET p == pan(tpan, Q(3 * tt - TDen, TDen))
                  IN  tres.lat = p.lat /\ tres.lng = p.lng
               /\ 3 * tt = TDen => AtPosition(tres, tp0)
               /\ 3 * tt = 2 * TDen => AtPosition(tres, tp1)
        /\ 2 * TDen <= 3 * tt =>
               /\ AtPosition(tres, tp1)
               /\ LinearAt(tres.zoom, tmin, tp1.zoom, 3 * tt - 2 * TDen, TDen)
        /\ tt = 0 => ExactlyAt(tres, tp0, tp0.zoom)
        /\ tt = TDen => ExactlyAt(tres, tp1, tp1.zoom)

\* the end of the panning phase of a box transition across the antimeridian
\* that zooms out first
C20_Witness ==
    /\ tpc = "evaluated" /\ tkind = "box"
    /\ 3 * tt = 2 * TDen
    /\ tpan.dx1 # 0
    /\ tmin < tp0.zoom /\ tmin < tp1.zoom
    /\ tp0.lat # tp1.lat
    /\ AtPosition(tres, tp1)
    /\ QEq(tres.zoom, tmin)

\* C25 as stated: the zoom level of the panning phase of a box transition
\* exceeds neither p0.zoom nor p1.zoom, whether minZoom was computed or
\* passed by the caller
C25_PanZoomNeverAboveEndpoints ==
    (tkind = "box" /\ tpc # "none") => (tmin <= tp0.zoom /\ tmin <= tp1.zoom)

\* C25 amended: a computed panning zoom is the smallest of the fit zoom,
\* p0.zoom and p1.zoom, so it exceeds neither endpoint zoom; a minZoom passed
\* by the caller is used as it is, also when it is above an endpoint zoom;
\* in both cases the panning phase runs at that zoom
C25_ComputedPanZoomCapped ==
    (tkind = "box" /\ tpc # "none") =>
        /\ ~tgiven => /\ tmin <= tp0.zoom /\ tmin <= tp1.zoom /\ tmin <= targ
                      /\ tmin \in {targ, tp0.zoom, tp1.zoom}
        /\ tgiven => tmin = targ
        /\ (tpc = "evaluated" /\ TDen < 3 * tt /\ 3 * tt <= 2 * TDen) =>
               QEq(tres.zoom, tmin)

\* a box transition whose computed fit zoom is above p0.zoom, evaluated in
\* its panning phase at the capped zoom
C25_Witness ==
    /\ tkind = "box" /\ tpc = "evaluated"
    /\ ~tgiven
    /\ targ > tp0.zoom
    /\ tmin = tp0.zoom /\ tp0.zoom <= tp1.zoom
    /\ 2 * tt = TDen
    /\ QEq(tres.zoom, tmin)

\* the viewpoint returned has a number in every component
Finite(res) == res.lat.den > 0 /\ res.lng.den > 0 /\ res.zoom.den > 0

\* p0 and p1 are different positions of the globe
DistinctPositions == tp0.lat # tp1.lat \/ (tp1.lng - tp0.lng) % 360 # 0

\* C30: for distinct positions the triangular transition returns a finite
\* viewpoint at every t in [0,1], p0 (position and zoom) at t = 0, the
\* image-space midpoint of p0 and p1 at the mid zoom z1 at t = 0.5 and p1 at
\* t = 1, also when z1 = min(fit zoom, p0.zoom, p1.zoom) is p0.zoom or p1.zoom
C30_TriangularWellDefined ==
    (tpc = "evaluated" /\ tkind = "triangular" /\ DistinctPositions) =>
        /\ Finite(tres)
        /\ tt = 0 => (AtPosition(tres, tp0) /\ QEq(tres.zoom, tp0.zoom))
        /\ tt = TDen => (AtPosition(tres, tp1) /\ QEq(tres.zoom, tp1.zoom))
        /\ 2 * tt = TDen =>
               /\ QEq(tres.zoom, tmin)
               /\ LET m == triMid(tp0, tp1)
                  IN  tres.lng.num * 2 * MercWidth = m.lng2 * tres.lng.den

\* start and end of the van Wijk and Nuij transition are the same point of
\* the map
Coincident == projX(tp0.lng) = projX(tp1.lng) /\ tp0.lat = tp1.lat

\* C24: createVanWijkAndNuijTransition surfaces degenerate input as an
\* error: with coinciding start and end positions an error is thrown when
\* the transition is created, and no viewpoint with NaN components is ever
\* returned
C24_DegenerateInputThrows ==
    (tkind = "vanWijk" /\ tpc # "none") =>
        /\ Coincident => wres = "threw"
        /\ wres # "nan"

-----------------------------------------------------------------------------
(* Claims about the animation loop of Transition *)

\* the pending animation-frame callbacks that continue an animation loop
Loops == {i \in 1..Len(rafq) : rafq[i] \in {"playStart", "doFrame"}}

\* C27: after any sequence of play(), pause(), cancel() and index
\* assignments at most one animation loop is pending, and one browser
\* animation frame advances the frame index by at most one
C27_OneLoopOneFramePerBrowserFrame ==
    /\ [](Cardinality(Loops) <= 1)
    /\ [][lastStep' = "frame" =>
              Abs(currentFrameIndex' - currentFrameIndex) <= 1]_vars

\* C28: the frame index stays within [0, length - 1], no animation-frame
\* callback raises the `frame index too large` error of renderFrame, and an
\* index assignment that throws leaves index, state and pending callbacks
\* unchanged
C28_IndexStaysInRange ==
    /\ [](0 <= currentFrameIndex /\ currentFrameIndex <= length - 1)
    /\ [](lastStep = "frame" => ~threw)
    /\ [][(lastStep' = "setIndex" /\ threw') =>
              UNCHANGED <<currentFrameIndex, tstate, rafq>>]_vars

-----------------------------------------------------------------------------
(* Claims about the failed tiles of TileMap *)

\* C29: in every reachable state no canonical tile key is both loaded
\* (present in the bitmap map) and recorded as failed: a tile whose fetch
\* succeeds in a later addToTileMap call is removed from the failed set
C29_LoadedNeverFailed ==
    \A k \in Keys : ~(k \in tileMap /\ failedTiles[k] > 0)

-----------------------------------------------------------------------------
(* Claims about the wrapped copy chosen by Frame.project *)

\* let x = Math.floor((lng + 180) * ((256 * Math.pow(2, this.zoom)) / 360))
worldX(f, coord) ==
    floorDiv((coord.lng.num + 180 * coord.lng.den) * worldSize(f.zoom), 360 * coord.lng.den)

\* C26: for a frame centre and a coordinate with longitudes in [-180,180]
\* the canvas x of the coordinate lies within half a world width of the
\* canvas centre x, and it is the x of a wrapped copy of the coordinate
\* (it differs from the unwrapped x by a multiple of the world width), also
\* when the frame straddles the antimeridian
C26_NearestWrappedCopy ==
    (fop = "project") =>
        LET W == worldSize(frame.zoom)
            dx2 == fresult.x.num - frame.canvasSize.x       \* twice the distance
        IN  /\ fresult.x.den = 2
            /\ Abs(dx2) <= W
            /\ (dx2 - 2 * (worldX(frame, fcoord) - frame.offset.x)) % (2 * W) = 0

\* a coordinate just east of the antimeridian projected into a frame centred
\* just west of it lands right of the canvas centre
C26_Witness ==
    /\ fop = "project"
    /\ worldX(frame, fcoord) < frame.offset.x
    /\ 2 * (frame.offset.x - worldX(frame, fcoord)) > worldSize(frame.zoom)
    /\ fresult.x.num > frame.canvasSize.x
    /\ fresult.x.num - frame.canvasSize.x <= worldSize(frame.zoom)

-----------------------------------------------------------------------------
(* Claims about calcZoomFitPoints and calcMinZoomCenteredOn *)

\* z1 <= z2 as numbers: false when either is NaN
zoomLeq(z1, z2) == ~isNaN(z1) /\ ~isNaN(z2) /\ leq(z1, z2)

\* the margin leaves a box of positive width and height in the canvas
PositiveBox(call) ==
    2 * call.margin < call.canvasSize.x /\ 2 * call.margin < call.canvasSize.y

\* outer mirrored at center stays within the longitudes [-180,180]
MirrorInRange(call) ==
    Abs(2 * imagePoint(call.a).l - imagePoint(call.b).l) <= 180

\* the distance of outer from the centre of a frame centred on center, along
\* x (by the shorter way round, as Frame.project takes it) and along y, in
\* degrees of world width
outerDistance(call) ==
    [l |-> Abs(rotationIdentity(imagePoint(call.b).l - imagePoint(call.a).l, 1)),
     v |-> Abs(imagePoint(call.b).v - imagePoint(call.a).v)]

\* C21: at the zoom returned by calcMinZoomCenteredOn a frame of the canvas
\* size centred on center shows outer at least margin pixels inside every
\* canvas edge, and at exactly margin pixels from one of them (no larger
\* zoom does so)
C21_OuterVisibleAtMargin ==
    (fitCall.op = "calcMinZoomCenteredOn" /\ PositiveBox(fitCall) /\ fitCall.zoom.den > 0) =>
        LET d == outerDistance(fitCall)
            box == fitBox(fitCall.canvasSize, fitCall.margin)
            px == 2 * d.l * fitCall.zoom.num        \* 2 * 360 * den * pixels along x
            py == 2 * d.v * fitCall.zoom.num
            halfW == box.w * 360 * fitCall.zoom.den
            halfH == box.h * 360 * fitCall.zoom.den
        IN  /\ px <= halfW
            /\ py <= halfH
            /\ px = halfW \/ py = halfH

\* C22 as stated: calcMinZoomCenteredOn returns a zoom at least as large as
\* calcZoomFitPoints([center, outer]) with the same canvas size and margin
C22_CenteredAtLeastNaive ==
    (fitPrev.op = "calcMinZoomCenteredOn" /\ fitCall.op = "calcZoomFitPoints"
         /\ fitCall.margin = fitPrev.margin) =>
        zoomLeq(fitCall.zoom, fitPrev.zoom)

\* C22 amended: when the margin leaves a box of positive size and outer
\* mirrored at center stays within [-180,180], calcMinZoomCenteredOn fits an
\* extent twice that of [center, outer]: the world at its zoom is half as
\* wide (one zoom level less), so its zoom is at most the naive one
C22_CenteredOneLevelBelowNaive ==
    (fitPrev.op = "calcMinZoomCenteredOn" /\ fitCall.op = "calcZoomFitPoints"
         /\ fitCall.margin = fitPrev.margin
         /\ PositiveBox(fitCall) /\ MirrorInRange(fitCall)) =>
        /\ zoomLeq(fitPrev.zoom, fitCall.zoom)
        /\ fitCall.zoom.den = 0 <=> fitPrev.zoom.den = 0
        /\ fitCall.zoom.den > 0 =>
               2 * fitPrev.zoom.num * fitCall.zoom.den = fitCall.zoom.num * fitPrev.zoom.den

\* the two fits of distinct points: the centred zoom is strictly smaller
C22_Witness ==
    /\ fitPrev.op = "calcMinZoomCenteredOn" /\ fitCall.op = "calcZoomFitPoints"
    /\ fitCall.margin = fitPrev.margin
    /\ PositiveBox(fitCall) /\ MirrorInRange(fitCall)
    /\ fitCall.zoom.den > 0 /\ fitPrev.zoom.den > 0
    /\ ~leq(fitCall.zoom, fitPrev.zoom)

\* C23 as stated: for fixed coordinates and canvas size and every two
\* margins m1 < m2 the zoom calcZoomFitPoints returns for m2 is less than or
\* equal to the zoom it returns for m1
C23_MarginMonotone ==
    (fitPrev.op = "calcZoomFitPoints" /\ fitCall.op = "calcZoomFitPoints"
         /\ fitPrev.margin < fitCall.margin) =>
        zoomLeq(fitCall.zoom, fitPrev.zoom)

\* C23 amended: the same for margins m1 < m2 below half the canvas width
\* and half the canvas height
C23_MarginMonotoneInsideCanvas ==
    (fitPrev.op = "calcZoomFitPoints" /\ fitCall.op = "calcZoomFitPoints"
         /\ fitPrev.margin < fitCall.margin /\ PositiveBox(fitCall)) =>
        zoomLeq(fitCall.zoom, fitPrev.zoom)

\* two fits of distinct points where the larger margin gives a strictly
\* smaller zoom
C23_Witness ==
    /\ fitPrev.op = "calcZoomFitPoints" /\ fitCall.op = "calcZoomFitPoints"
    /\ fitPrev.margin < fitCall.margin /\ PositiveBox(fitCall)
    /\ fitCall.zoom.den > 0 /\ fitPrev.zoom.den > 0
    /\ ~leq(fitPrev.zoom, fitCall.zoom)

-----------------------------------------------------------------------------

Init == JoinInit /\ TransInit /\ TilesInit /\ PlayInit /\ FrameInit /\ FitInit

Next ==
    \/ JoinNext
    \/ TransNext
    \/ WijkNext
    \/ TilesNext
    \/ PlayNext
    \/ FrameNext
    \/ FitNext

\* the functions and the tile map are used without a Transition object: its
\* frame list does not matter to them
InitShortest == Init /\ length = 1

SpecJoin == InitShortest /\ [][JoinNext]_vars

SpecTrans == InitShortest /\ [][TransNext]_vars

SpecWijk == InitShortest /\ [][WijkNext]_vars

SpecTiles == InitShortest /\ [][TilesNext]_vars

SpecPlay == Init /\ [][PlayNext]_vars

\* the browser keeps producing animation frames while callbacks are pending
SpecPlayOnce == Init /\ [][PlayOnceNext]_vars /\ WF_vars(BrowserFrame)

SpecFrame == InitShortest /\ [][FrameNext]_vars

SpecFit == InitShortest /\ [][FitNext]_vars

Spec == Init /\ [][Next]_vars

====
